---- MODULE Spec2Model ----
(***************************************************************************)
(* Payment confirmation and ownership transfer of the BESA player backend  *)
(* (src/src/db/index.ts, the PayFast router), and its signature codec.     *)
(*                                                                         *)
(* Seven specifications:                                                   *)
(*   Spec        the request handlers of the payment router, one action    *)
(*               per synchronous segment or awaited database call, from    *)
(*               the empty store;                                          *)
(*   ConfirmSpec the notification and return handlers racing on one        *)
(*               payment that create-payment has initiated with its three  *)
(*               relation IDs; it keeps the history of the handlers run;   *)
(*   ContractSpec the same handlers as Spec on a few chosen request        *)
(*               bodies, remembering the input of the request that arrived *)
(*               last, for the per-request contracts;                      *)
(*   TransferSpec transferCardOwnership called by the notification         *)
(*               handler and the manual replay, on several contents of     *)
(*               the collections table and on IDs that have no row;        *)
(*   LiveSpec    ContractSpec with weak fairness of the handlers' awaited  *)
(*               calls, for the claims about what eventually happens;      *)
(*   SigSpec     generatePayFastSignature and the notification handler's   *)
(*               re-computation of it, on bounded parameter mappings;      *)
(*   RateSpec    rateLimit of src/unnamed/part_004 (the rate limiter of    *)
(*               the auth and search routes), called with a few limits.    *)
(*                                                                         *)
(* JavaScript values: `undefined` is the string Undefined; a value is      *)
(* truthy when it is not Undefined, the empty string or NaN.  Date.now()   *)
(* is the logical time Now, the arrival index of the running request.      *)
(***************************************************************************)
EXTENDS Integers, Sequences, FiniteSets, Bags, TLC

\* ------------------------------------------------------------------ bounds
MaxRequests == 2      \* handler invocations in one behaviour
MaxFaults == 1        \* database calls that throw in one behaviour

\* ------------------------------------------------------------ JS values
Undefined == "<undefined>"
NaN == "<NaN>"
Truthy(x) == x \notin {Undefined, "", NaN}

\* ------------------------------------------------------- database contents
\* users(id, email): rows that exist; "ghost" is an id with no row.
UserIds == {"buyer1", "seller1", "seller2"}
UserEmail(u) ==
  CASE u = "buyer1" -> "buyer1@x.io"
    [] u = "seller1" -> "seller1@x.io"
    [] OTHER -> "seller2@x.io"

\* stores(id, userId): userId is unique.
StoreIds == {"S1", "S2"}
StoreOwner(s) == IF s = "S1" THEN "seller1" ELSE "seller2"

\* store_listings(id, storeId, cardName, price); "L9" is an id with no row.
ListingIds == {"L1"}
ListingStore(l) == "S1"
ListingName(l) == "Flareon Ex"
ListingPrice(l) == "150.00"

\* LOWER(TRIM(name)) of the SQL matching rules, on the names that occur.
LowerTrim(n) ==
  CASE n \in {"Flareon Ex", " flareon ex "} -> "flareon ex"
    [] n \in {"Promo", "promo "} -> "promo"
    [] OTHER -> n

\* parseFloat(x): does the text start with a number?
IsNumber(x) == x \in {"165.00", "165", "150.00"}
\* parseFloat(x).toFixed(2)
ToFixed2(x) == IF x = "165" THEN "165.00" ELSE x

\* ------------------------------------------------------------ request inputs
PaymentIds == {"p1"}
\* A listing id is written "L<n>" for the integer n.  The texts a caller sends
\* as listingId: a numeral, a numeral followed by other characters, a text
\* with no leading numeral.
ListingInputs == {Undefined, "L1", "L9", "L1abc", "abc"}
\* parseInt(text): the leading integer of the text, NaN when there is none.
ParseInt(text) ==
  CASE text \in {"L1", "L1abc"} -> "L1"
    [] text = "L9" -> "L9"
    [] OTHER -> NaN
BuyerInputs == {Undefined, "buyer1"}
SellerInputs == {Undefined, "seller1", "seller2"}
AmountInputs == {"165.00", "abc"}
NameInputs == {"Flareon Ex"}
EmailInputs == {"buyer1@x.io", "nobody@x.io"}
StatusInputs == {"COMPLETE", "FAILED", "PENDING"}
ReturnStatusInputs == {"success", "cancel", Undefined}

\* ------------------------------------------------------------------- state
VARIABLES
  store,         \* paymentStatusStore: Map<paymentId, record>
  listingActive, \* store_listings.is_active, by listing id
  totalSales,    \* stores.total_sales, by store id
  collections,   \* rows of collections: [id, userId, name, purchasePrice]
  nextCardId,    \* serial of collections.id
  orders,        \* rows of orders, in insertion order
  reqs,          \* handler invocations in flight, in arrival order
  started,       \* handler invocations so far
  lastResp,      \* the response sent last: [kind, pid, resp]
  faults,        \* database calls that have thrown
  ledger,        \* per paymentId: writes done by transfers the notification
                 \* and return handlers started (history, not program state)
  hist,          \* ConfirmSpec: the handlers run so far (history)
  sigParams,     \* SigSpec: the parameter mapping, as a sequence of pairs
  sigSecret,     \* SigSpec: the passphrase
  sigOut,        \* SigSpec: the last results of the codec
  rateLimitStore, \* rateLimiter: Map<identifier, {count, resetTime}>
  clock,         \* rateLimiter: Date.now() at the last call of rateLimit
  limit,         \* rateLimiter: the maxRequests and windowMs the caller passes
  rateOut,       \* rateLimiter: the last call's identifier and its result
  granted        \* per identifier: calls answered success with the resetTime
                 \* of its current window (history, not program state)

vars == <<store, listingActive, totalSales, collections, nextCardId, orders,
          reqs, started, lastResp, faults, ledger, hist,
          sigParams, sigSecret, sigOut,
          rateLimitStore, clock, limit, rateOut, granted>>
payVars == <<store, listingActive, totalSales, collections, nextCardId,
             orders, reqs, started, lastResp, faults, ledger, hist>>
sigVars == <<sigParams, sigSecret, sigOut>>
rateVars == <<rateLimitStore, clock, limit, rateOut, granted>>
dbVars == <<listingActive, totalSales, collections, nextCardId, orders>>

\* ------------------------------------------------------ paymentStatusStore
Has(m, k) == k \in DOMAIN m
MapSet(m, k, v) == [x \in DOMAIN m \cup {k} |-> IF x = k THEN v ELSE m[x]]

PaymentRecord(status, pid, pf, amount, ts, l, b, s) ==
  [status |-> status, mPaymentId |-> pid, pfPaymentId |-> pf,
   amount |-> amount, timestamp |-> ts,
   listingId |-> l, buyerId |-> b, sellerId |-> s]

\* ----------------------------------------------------------------- requests
NoResp == [code |-> 0, body |-> ""]
Resp(code, body) == [code |-> code, body |-> body]

\* An invocation in flight: its position and the locals it holds.
Req(kind, pc, pid, l, b, s, item, amount, email) ==
  [kind |-> kind, pc |-> pc, pid |-> pid, listingId |-> l, buyerId |-> b,
   sellerId |-> s, itemName |-> item, amount |-> amount, email |-> email,
   card |-> 0]

Now == started + 1
CanStart == started < MaxRequests
At(i, pc) == i \in 1..Len(reqs) /\ reqs[i].pc = pc
Remove(q, i) == [j \in 1..(Len(q) - 1) |-> IF j < i THEN q[j] ELSE q[j + 1]]

\* A handler that awaits: it is in flight from its first await on.
Start(r) ==
  /\ reqs' = Append(reqs, r)
  /\ started' = started + 1
  /\ UNCHANGED lastResp
\* A handler that answers in its first synchronous segment.
Answer(kind, pid, resp) ==
  /\ started' = started + 1
  /\ lastResp' = [kind |-> kind, pid |-> pid, resp |-> resp]
  /\ UNCHANGED reqs
\* The handler in flight at i moves on, or answers and ends.
Step(i, r) ==
  /\ reqs' = [reqs EXCEPT ![i] = r]
  /\ UNCHANGED <<started, lastResp>>
Goto(i, pc) == Step(i, [reqs[i] EXCEPT !.pc = pc])
Finish(i, resp) ==
  /\ reqs' = Remove(reqs, i)
  /\ lastResp' = [kind |-> reqs[i].kind, pid |-> reqs[i].pid, resp |-> resp]
  /\ UNCHANGED started

\* What each handler answers once transferCardOwnership has returned.
AfterTransfer(kind) ==
  CASE kind = "itn" -> Resp(200, "OK")
    [] kind = "return" -> Resp(200, "Payment Successful")
    [] OTHER -> Resp(200, "Card transfer completed successfully")

NoLedger == [card |-> 0, del |-> 0, deact |-> 0, order |-> 0, sales |-> 0]
\* A transfer started by the notification or return handler of payment pid
\* has done write w.
Record(i, w) ==
  IF reqs[i].kind \in {"itn", "return"}
  THEN ledger' = [ledger EXCEPT ![reqs[i].pid][w] = @ + 1]
  ELSE UNCHANGED ledger

\* The history ConfirmSpec keeps: the notification and return requests
\* handled so far, as a bag of their inputs, and whether one of them arrived
\* while another was in flight.  Spec keeps none (on = FALSE).
\* ContractSpec keeps (track = TRUE) the input of the request that arrived
\* last.
NoInput == [kind |-> "none"]
NoHist == [on |-> FALSE, track |-> FALSE, ops |-> EmptyBag, overlap |-> FALSE,
           last |-> NoInput]
Note(input) ==
  hist' = [hist EXCEPT !.last = IF hist.track THEN input ELSE @]
Log(op, input) ==
  hist' = [hist EXCEPT !.ops = IF hist.on THEN @ (+) SetToBag({op}) ELSE @,
                       !.overlap = IF hist.on THEN @ \/ Len(reqs) > 0 ELSE @,
                       !.last = IF hist.track THEN input ELSE @]
CreateInput(body) == [kind |-> "create", body |-> body]
ReturnInput(status, pid) == [kind |-> "return", status |-> status, pid |-> pid]
ItnInput(data) == [kind |-> "itn", data |-> data]
ManualInput(body) == [kind |-> "manual", body |-> body]
StatusInput(paymentId) == [kind |-> "status", pid |-> paymentId]
ReturnOp(status, pid) ==
  [kind |-> "return", pid |-> pid, status |-> status,
   pf |-> Undefined, amount |-> Undefined, hasNullField |-> FALSE]
ItnOp(data) ==
  [kind |-> "itn", pid |-> data.m_payment_id, status |-> data.payment_status,
   pf |-> data.pf_payment_id, amount |-> data.amount_gross,
   hasNullField |-> data.hasNullField]

\* -------------------------------------------------------------------- Init
InitCollections ==
  {[id |-> 1, userId |-> "seller1", name |-> "Flareon Ex", purchasePrice |-> Undefined],
   [id |-> 2, userId |-> "seller2", name |-> " flareon ex ", purchasePrice |-> Undefined]}

PayInit ==
  /\ store = <<>>
  /\ listingActive = [l \in ListingIds |-> TRUE]
  /\ totalSales = [s \in StoreIds |-> 0]
  /\ collections = InitCollections
  /\ nextCardId = 3
  /\ orders = <<>>
  /\ reqs = <<>>
  /\ started = 0
  /\ lastResp = [kind |-> "none", pid |-> Undefined, resp |-> NoResp]
  /\ faults = 0
  /\ ledger = [p \in PaymentIds |-> NoLedger]
  /\ hist = NoHist

\* ---------------------------------------------- POST /payment/create-payment
\* `pf_${Date.now()}_${random}`: a key no record has yet.
FreshIds == PaymentIds \ DOMAIN store

CreateInputs ==
  [amount : {Undefined, "165.00"}, itemName : {Undefined, "Flareon Ex"},
   mPaymentId : PaymentIds \cup {Undefined},
   listingId : ListingInputs, buyerId : BuyerInputs, sellerId : SellerInputs]

\* CreateRecord with the buyer and the seller exchanged.
CreateRecordSwapsParties(paymentId, body, now) ==
  PaymentRecord("pending", paymentId, Undefined, Undefined, now,
                IF Truthy(body.listingId) THEN ParseInt(body.listingId) ELSE Undefined,
                IF Truthy(body.sellerId) THEN body.sellerId ELSE Undefined,
                IF Truthy(body.buyerId) THEN body.buyerId ELSE Undefined)

\* The record stored: listingId through parseInt, buyerId and sellerId as the
\* strings they are, each undefined when falsy.
CreateRecord(paymentId, body, now) ==
  LET parsedListingId ==
        IF Truthy(body.listingId) THEN ParseInt(body.listingId) ELSE Undefined
      parsedBuyerId == IF Truthy(body.buyerId) THEN body.buyerId ELSE Undefined
      parsedSellerId == IF Truthy(body.sellerId) THEN body.sellerId ELSE Undefined
  IN PaymentRecord("pending", paymentId, Undefined, Undefined, now,
                   parsedListingId, parsedBuyerId, parsedSellerId)

\* CreatePaymentOn storing the record before it validates the body.
CreatePaymentStoresFirst(body) ==
  /\ CanStart
  /\ \E paymentId \in IF Truthy(body.mPaymentId) THEN {body.mPaymentId} ELSE FreshIds :
       /\ store' = MapSet(store, paymentId, CreateRecord(paymentId, body, Now))
       /\ IF ~Truthy(body.amount) \/ ~Truthy(body.itemName)
          THEN Answer("create", Undefined,
                      Resp(400, "Amount and item name are required"))
          ELSE Answer("create", paymentId, Resp(200, paymentId))
  /\ Note(CreateInput(body))
  /\ UNCHANGED <<dbVars, faults, ledger, sigVars, rateVars>>

CreatePaymentOn(body) ==
  /\ CanStart
  /\ IF ~Truthy(body.amount) \/ ~Truthy(body.itemName)
     THEN /\ Answer("create", Undefined, Resp(400, "Amount and item name are required"))
          /\ UNCHANGED store
     ELSE \E paymentId \in IF Truthy(body.mPaymentId) THEN {body.mPaymentId} ELSE FreshIds :
            /\ store' = MapSet(store, paymentId, CreateRecord(paymentId, body, Now))
            /\ Answer("create", paymentId, Resp(200, paymentId))
  /\ Note(CreateInput(body))
  /\ UNCHANGED <<dbVars, faults, ledger, sigVars, rateVars>>

CreateOn(bodies) == \E body \in bodies : CreatePaymentOn(body)

CreatePayment == CreateOn(CreateInputs)

\* ------------------------------------------------------- GET /payment/return
\* The synchronous segment: the lookup and promotion of the record, up to the
\* first awaited database call or the response.
ReturnPage(status) ==
  CASE status = "success" -> Resp(200, "Payment Successful")
    [] status = "cancel" -> Resp(200, "Payment Cancelled")
    [] OTHER -> Resp(400, "Invalid status parameter")

\* ReturnPromote without the spread of the existing record.
ReturnPromoteBare(existingPayment, now) ==
  PaymentRecord("complete", existingPayment.mPaymentId, Undefined, Undefined,
                now, Undefined, Undefined, Undefined)

ReturnPromote(existingPayment, now) ==
  [existingPayment EXCEPT !.status = "complete", !.timestamp = now]

\* ReturnStore promoting whatever record exists, pending or not.
ReturnStoreRepromotes(m, status, m_payment_id, now) ==
  IF status = "success" /\ Truthy(m_payment_id)
  THEN IF Has(m, m_payment_id)
       THEN MapSet(m, m_payment_id, ReturnPromote(m[m_payment_id], now))
       ELSE MapSet(m, m_payment_id,
                   PaymentRecord("complete", m_payment_id, Undefined, Undefined,
                                 now, Undefined, Undefined, Undefined))
  ELSE m

\* ReturnStore creating no record for an unknown paymentId.
ReturnStoreSkipsUnknown(m, status, m_payment_id, now) ==
  IF /\ status = "success" /\ Truthy(m_payment_id)
     /\ Has(m, m_payment_id) /\ m[m_payment_id].status = "pending"
  THEN MapSet(m, m_payment_id, ReturnPromote(m[m_payment_id], now))
  ELSE m

\* ReturnStore marking the record of a cancelled payment.
ReturnStoreCancels(m, status, m_payment_id, now) ==
  IF status = "success" /\ Truthy(m_payment_id)
  THEN IF Has(m, m_payment_id) /\ m[m_payment_id].status = "pending"
       THEN MapSet(m, m_payment_id, ReturnPromote(m[m_payment_id], now))
       ELSE IF ~Has(m, m_payment_id)
       THEN MapSet(m, m_payment_id,
                   PaymentRecord("complete", m_payment_id, Undefined, Undefined,
                                 now, Undefined, Undefined, Undefined))
       ELSE m
  ELSE IF status = "cancel" /\ Has(m, m_payment_id)
  THEN MapSet(m, m_payment_id, [m[m_payment_id] EXCEPT !.status = "cancelled"])
  ELSE m

\* What the handler does to the store: the get, the test and the set are one
\* synchronous segment.
ReturnStore(m, status, m_payment_id, now) ==
  IF status = "success" /\ Truthy(m_payment_id)
  THEN IF Has(m, m_payment_id) /\ m[m_payment_id].status = "pending"
       THEN MapSet(m, m_payment_id, ReturnPromote(m[m_payment_id], now))
       ELSE IF ~Has(m, m_payment_id)
       THEN MapSet(m, m_payment_id,
                   PaymentRecord("complete", m_payment_id, Undefined, Undefined,
                                 now, Undefined, Undefined, Undefined))
       ELSE m
  ELSE m

\* ReturnHandle with an await between the get and the set of the record: the
\* handler reads, yields, and later writes what it read.
ReturnHandleYieldsBeforeSet(status, m_payment_id) ==
  \/ /\ CanStart
     /\ status = "success"
     /\ Has(store, m_payment_id) /\ store[m_payment_id].status = "pending"
     /\ LET existingPayment == store[m_payment_id]
        IN Start(Req("return", "r_stale", m_payment_id,
                     existingPayment.listingId, existingPayment.buyerId,
                     existingPayment.sellerId, Undefined,
                     existingPayment.amount, Undefined))
     /\ Log(ReturnOp(status, m_payment_id), ReturnInput(status, m_payment_id))
     /\ UNCHANGED <<store, dbVars, faults, ledger, sigVars, rateVars>>
  \/ /\ CanStart
     /\ ~(status = "success" /\ Has(store, m_payment_id)
                            /\ store[m_payment_id].status = "pending")
     /\ store' = ReturnStore(store, status, m_payment_id, Now)
     /\ Answer("return", m_payment_id, ReturnPage(status))
     /\ Log(ReturnOp(status, m_payment_id), ReturnInput(status, m_payment_id))
     /\ UNCHANGED <<dbVars, faults, ledger, sigVars, rateVars>>
  \/ \E i \in 1..Len(reqs) :
       /\ reqs[i].pc = "r_stale" /\ reqs[i].pid = m_payment_id
       /\ status = "success"
       /\ LET r == reqs[i]
              existingPayment == PaymentRecord("pending", r.pid, Undefined, r.amount,
                                               0, r.listingId, r.buyerId, r.sellerId)
          IN /\ store' = MapSet(store, r.pid, ReturnPromote(existingPayment, Now))
             /\ Step(i, [r EXCEPT !.pc = "r_listing"])
       /\ UNCHANGED <<dbVars, faults, ledger, hist, sigVars, rateVars>>

ReturnHandle(status, m_payment_id) ==
  /\ CanStart
  /\ store' = ReturnStore(store, status, m_payment_id, Now)
  /\ IF /\ status = "success" /\ Truthy(m_payment_id)
        /\ Has(store, m_payment_id) /\ store[m_payment_id].status = "pending"
     THEN LET existingPayment == store[m_payment_id]
          IN IF /\ Truthy(existingPayment.listingId)
                /\ Truthy(existingPayment.buyerId)
                /\ Truthy(existingPayment.sellerId)
             THEN Start(Req("return", "r_listing", m_payment_id,
                            existingPayment.listingId, existingPayment.buyerId,
                            existingPayment.sellerId, Undefined,
                            existingPayment.amount, Undefined))
             ELSE IF Truthy(existingPayment.listingId)
             THEN Start(Req("return", "r_deact", m_payment_id,
                            existingPayment.listingId, Undefined, Undefined,
                            Undefined, Undefined, Undefined))
             ELSE Answer("return", m_payment_id, ReturnPage(status))
     ELSE Answer("return", m_payment_id, ReturnPage(status))
  /\ Log(ReturnOp(status, m_payment_id), ReturnInput(status, m_payment_id))
  /\ UNCHANGED <<dbVars, faults, ledger, sigVars, rateVars>>

ReturnStartOn(statuses) ==
  \E status \in statuses, m_payment_id \in PaymentIds :
    ReturnHandle(status, m_payment_id)

ReturnStart == ReturnStartOn(ReturnStatusInputs)

\* await db.select().from(storeListings).where(id = listingId), then the call
\* of transferCardOwnership up to its first await.
ReturnSelectListing(i) ==
  /\ At(i, "r_listing")
  /\ LET r == reqs[i]
     IN IF r.listingId \in ListingIds
        THEN Step(i, [r EXCEPT !.pc = "t_listing",
                        !.itemName = ListingName(r.listingId),
                        !.amount = IF Truthy(r.amount) THEN r.amount
                                   ELSE ListingPrice(r.listingId)])
        ELSE Finish(i, ReturnPage("success"))
  /\ UNCHANGED <<store, dbVars, faults, ledger, hist, sigVars, rateVars>>

\* ReturnDeactivate counting a sale for the store of the listing.
ReturnDeactivateCountsSale(i) ==
  /\ At(i, "r_deact")
  /\ listingActive' = [l \in ListingIds |->
        IF l = reqs[i].listingId THEN FALSE ELSE listingActive[l]]
  /\ totalSales' = [s \in StoreIds |->
        IF reqs[i].listingId \in ListingIds /\ s = ListingStore(reqs[i].listingId)
        THEN totalSales[s] + 1 ELSE totalSales[s]]
  /\ Finish(i, ReturnPage("success"))
  /\ UNCHANGED <<store, collections, nextCardId, orders, faults,
                 ledger, hist, sigVars, rateVars>>

\* await db.update(storeListings).set({isActive: false}): the record has a
\* listingId but no buyer or seller.
ReturnDeactivate(i) ==
  /\ At(i, "r_deact")
  /\ listingActive' = [l \in ListingIds |->
        IF l = reqs[i].listingId THEN FALSE ELSE listingActive[l]]
  /\ Finish(i, ReturnPage("success"))
  /\ UNCHANGED <<store, totalSales, collections, nextCardId, orders, faults,
                 ledger, hist, sigVars, rateVars>>

\* --------------------------------------------------------- POST /payment/itn
\* ItnComplete without the IDs of the stored record.
ItnCompleteDropsIds(m, data, now) ==
  PaymentRecord("complete", data.m_payment_id, data.pf_payment_id,
                data.amount_gross, now, Undefined, Undefined, Undefined)

ItnComplete(m, data, now) ==
  LET hasStored == Has(m, data.m_payment_id)
      storedPayment == m[data.m_payment_id]
  IN PaymentRecord("complete", data.m_payment_id, data.pf_payment_id,
                   data.amount_gross, now,
                   IF hasStored THEN storedPayment.listingId ELSE Undefined,
                   IF hasStored THEN storedPayment.buyerId ELSE Undefined,
                   IF hasStored THEN storedPayment.sellerId ELSE Undefined)

ItnFailed(data, now) ==
  PaymentRecord("failed", data.m_payment_id, Undefined, Undefined, now,
                Undefined, Undefined, Undefined)

\* ItnStore with FAILED falling into the branch of the other statuses.
ItnStoreIgnoresFailed(m, data, now) ==
  IF data.hasNullField THEN m
  ELSE IF data.payment_status = "COMPLETE"
  THEN MapSet(m, data.m_payment_id, ItnComplete(m, data, now))
  ELSE m

\* ItnStore with every status but COMPLETE recorded as a failure.
ItnStoreElseFails(m, data, now) ==
  IF data.hasNullField THEN m
  ELSE IF data.payment_status = "COMPLETE"
  THEN MapSet(m, data.m_payment_id, ItnComplete(m, data, now))
  ELSE MapSet(m, data.m_payment_id, ItnFailed(data, now))

\* ItnStore deleting the record of a failed payment.
ItnStoreDeletesFailed(m, data, now) ==
  IF data.hasNullField THEN m
  ELSE IF data.payment_status = "COMPLETE"
  THEN MapSet(m, data.m_payment_id, ItnComplete(m, data, now))
  ELSE IF data.payment_status = "FAILED"
  THEN [p \in DOMAIN m \ {data.m_payment_id} |-> m[p]]
  ELSE m

\* What the handler does to the store: the get and the set are one
\* synchronous segment.  A null field makes data[key].toString() throw
\* before the status branch.
ItnStore(m, data, now) ==
  IF data.hasNullField THEN m
  ELSE IF data.payment_status = "COMPLETE"
  THEN MapSet(m, data.m_payment_id, ItnComplete(m, data, now))
  ELSE IF data.payment_status = "FAILED"
  THEN MapSet(m, data.m_payment_id, ItnFailed(data, now))
  ELSE m

ItnData ==
  [m_payment_id : PaymentIds, payment_status : StatusInputs,
   pf_payment_id : {"pf-77"}, amount_gross : AmountInputs,
   item_name : NameInputs, email_address : EmailInputs,
   signatureMatches : BOOLEAN, hasNullField : BOOLEAN]

\* The synchronous segment: signature check (a mismatch is logged), status
\* branch, the get and set of the record, up to the first awaited database
\* call or the response.
ItnBranch(data) ==
  /\ CanStart
  /\ store' = ItnStore(store, data, Now)
  /\ IF ~data.hasNullField /\ data.payment_status = "COMPLETE"
     THEN LET hasStored == Has(store, data.m_payment_id)
              storedPayment == store[data.m_payment_id]
          IN IF /\ hasStored
                /\ Truthy(storedPayment.listingId)
                /\ Truthy(storedPayment.buyerId)
                /\ Truthy(storedPayment.sellerId)
             THEN Start(Req("itn", "t_listing", data.m_payment_id,
                            storedPayment.listingId, storedPayment.buyerId,
                            storedPayment.sellerId, data.item_name,
                            data.amount_gross, Undefined))
             ELSE Start(Req("itn", "i_listing", data.m_payment_id, Undefined,
                            Undefined, Undefined, data.item_name,
                            data.amount_gross, data.email_address))
     ELSE Answer("itn", data.m_payment_id, Resp(200, "OK"))
  /\ UNCHANGED <<dbVars, faults, ledger, sigVars, rateVars>>

\* ItnProcess with the `return res.status(400).send('Invalid signature')`
\* of the mismatch branch in force.
ItnProcessRejectsMismatch(data) ==
  IF data.signatureMatches \/ data.hasNullField
  THEN ItnBranch(data)
  ELSE /\ CanStart
       /\ Answer("itn", data.m_payment_id, Resp(400, "Invalid signature"))
       /\ UNCHANGED <<store, dbVars, faults, ledger, sigVars, rateVars>>

\* expectedSignature !== incomingSignature is logged, and the handler goes on
\* to the status branch either way.
ItnProcess(data) == ItnBranch(data)

ItnHandle(data) == ItnProcess(data) /\ Log(ItnOp(data), ItnInput(data))

ItnStartOn(payloads) == \E data \in payloads : ItnHandle(data)

ItnStart == ItnStartOn(ItnData)

\* Fallback: an active listing whose cardName is item_name (limit 1, any row).
ItnFindListing(i) ==
  /\ At(i, "i_listing")
  /\ LET found == {l \in ListingIds :
                     ListingName(l) = reqs[i].itemName /\ listingActive[l]}
     IN IF found = {}
        THEN Finish(i, Resp(200, "OK"))
        ELSE \E l \in found :
               Step(i, [reqs[i] EXCEPT !.pc = "i_store", !.listingId = l])
  /\ UNCHANGED <<store, dbVars, faults, ledger, hist, sigVars, rateVars>>

\* Fallback: the store of the listing; its owner is the seller.
ItnFindStore(i) ==
  /\ At(i, "i_store")
  /\ IF ListingStore(reqs[i].listingId) \in StoreIds
     THEN Step(i, [reqs[i] EXCEPT !.pc = "i_buyer",
                     !.sellerId = StoreOwner(ListingStore(reqs[i].listingId))])
     ELSE Finish(i, Resp(200, "OK"))
  /\ UNCHANGED <<store, dbVars, faults, ledger, hist, sigVars, rateVars>>

\* ItnFindBuyer calling the transfer though no user has the email.
ItnFindBuyerGoesOn(i) ==
  /\ At(i, "i_buyer")
  /\ LET found == {u \in UserIds : UserEmail(u) = reqs[i].email}
     IN \E u \in IF found = {} THEN {Undefined} ELSE found :
          Step(i, [reqs[i] EXCEPT !.pc = "t_listing", !.buyerId = u,
                                  !.email = Undefined])
  /\ UNCHANGED <<store, dbVars, faults, ledger, hist, sigVars, rateVars>>

\* ItnFindBuyer returning from the handler with no response when no user has
\* the email.
ItnFindBuyerReturnsSilently(i) ==
  /\ At(i, "i_buyer")
  /\ LET found == {u \in UserIds : UserEmail(u) = reqs[i].email}
     IN IF found = {}
        THEN Goto(i, "returned")
        ELSE \E u \in found :
               Step(i, [reqs[i] EXCEPT !.pc = "t_listing", !.buyerId = u,
                                       !.email = Undefined])
  /\ UNCHANGED <<store, dbVars, faults, ledger, hist, sigVars, rateVars>>

\* Fallback: the user whose email is email_address is the buyer; then the
\* call of transferCardOwnership up to its first await.
ItnFindBuyer(i) ==
  /\ At(i, "i_buyer")
  /\ LET found == {u \in UserIds : UserEmail(u) = reqs[i].email}
     IN IF found = {}
        THEN Finish(i, Resp(200, "OK"))
        ELSE \E u \in found :
               Step(i, [reqs[i] EXCEPT !.pc = "t_listing", !.buyerId = u,
                                       !.email = Undefined])
  /\ UNCHANGED <<store, dbVars, faults, ledger, hist, sigVars, rateVars>>

\* ------------------------------------------------------ transferCardOwnership
\* One action per awaited database call.  The locals of the call are the
\* request's listingId, buyerId, sellerId, itemName, amount and card (the id
\* of sellerCard, 0 when null).  Every return of the function, the catch
\* included, resumes the caller, which answers.
TransferExit(i) == Finish(i, AfterTransfer(reqs[i].kind))

T_SelectListing(i) ==
  /\ At(i, "t_listing")
  /\ IF reqs[i].listingId \in ListingIds THEN Goto(i, "t_buyer") ELSE TransferExit(i)
  /\ UNCHANGED <<store, dbVars, faults, ledger, hist, sigVars, rateVars>>

T_SelectBuyer(i) ==
  /\ At(i, "t_buyer")
  /\ IF reqs[i].buyerId \in UserIds THEN Goto(i, "t_seller") ELSE TransferExit(i)
  /\ UNCHANGED <<store, dbVars, faults, ledger, hist, sigVars, rateVars>>

T_SelectSeller(i) ==
  /\ At(i, "t_seller")
  /\ IF reqs[i].sellerId \in UserIds THEN Goto(i, "t_store") ELSE TransferExit(i)
  /\ UNCHANGED <<store, dbVars, faults, ledger, hist, sigVars, rateVars>>

\* T_SelectStore going on when the seller has no store.
T_SelectStoreGoesOn(i) ==
  /\ At(i, "t_store")
  /\ Goto(i, "t_exact")
  /\ UNCHANGED <<store, dbVars, faults, ledger, hist, sigVars, rateVars>>

T_SelectStore(i) ==
  /\ At(i, "t_store")
  /\ IF \E s \in StoreIds : StoreOwner(s) = reqs[i].sellerId
     THEN Goto(i, "t_exact") ELSE TransferExit(i)
  /\ UNCHANGED <<store, dbVars, faults, ledger, hist, sigVars, rateVars>>

\* The rows of the seller a matching rule selects; limit(1) takes any of them.
SellerCards(sellerId, names) ==
  {c \in collections : c.userId = sellerId /\ c.name \in names}
CardNames == {c.name : c \in collections}

T_ExactMatch(i) ==
  /\ At(i, "t_exact")
  /\ LET found == SellerCards(reqs[i].sellerId, {ListingName(reqs[i].listingId)})
     IN IF found = {}
        THEN Goto(i, "t_ci")
        ELSE \E c \in found : Step(i, [reqs[i] EXCEPT !.pc = "t_insert", !.card = c.id])
  /\ UNCHANGED <<store, dbVars, faults, ledger, hist, sigVars, rateVars>>

\* T_CaseInsensitiveMatch comparing with the caller's item name in place of
\* the listing's.
T_CaseInsensitiveMatchOnLabel(i) ==
  /\ At(i, "t_ci")
  /\ LET ci == {n \in CardNames : LowerTrim(n) = LowerTrim(reqs[i].itemName)}
         found == SellerCards(reqs[i].sellerId, ci)
     IN IF found = {}
        THEN Goto(i, "t_item")
        ELSE \E c \in found : Step(i, [reqs[i] EXCEPT !.pc = "t_insert", !.card = c.id])
  /\ UNCHANGED <<store, dbVars, faults, ledger, hist, sigVars, rateVars>>

T_CaseInsensitiveMatch(i) ==
  /\ At(i, "t_ci")
  /\ LET ci == {n \in CardNames :
                  LowerTrim(n) = LowerTrim(ListingName(reqs[i].listingId))}
         found == SellerCards(reqs[i].sellerId, ci)
     IN IF found = {}
        THEN Goto(i, "t_item")
        ELSE \E c \in found : Step(i, [reqs[i] EXCEPT !.pc = "t_insert", !.card = c.id])
  /\ UNCHANGED <<store, dbVars, faults, ledger, hist, sigVars, rateVars>>

\* T_ItemNameMatch ending the transfer when no rule has found a card.
T_ItemNameMatchAborts(i) ==
  /\ At(i, "t_item")
  /\ LET item == {n \in CardNames : LowerTrim(n) = LowerTrim(reqs[i].itemName)}
         found == SellerCards(reqs[i].sellerId, item)
     IN IF found = {}
        THEN TransferExit(i)
        ELSE \E c \in found : Step(i, [reqs[i] EXCEPT !.pc = "t_insert", !.card = c.id])
  /\ UNCHANGED <<store, dbVars, faults, ledger, hist, sigVars, rateVars>>

T_ItemNameMatch(i) ==
  /\ At(i, "t_item")
  /\ LET item == {n \in CardNames : LowerTrim(n) = LowerTrim(reqs[i].itemName)}
         found == SellerCards(reqs[i].sellerId, item)
     IN IF found = {}
        THEN Goto(i, "t_insert")
        ELSE \E c \in found : Step(i, [reqs[i] EXCEPT !.pc = "t_insert", !.card = c.id])
  /\ UNCHANGED <<store, dbVars, faults, ledger, hist, sigVars, rateVars>>

\* collections.purchase_price is decimal(10,2): the insert of a text that is
\* no number is rejected by the database, and undefined is stored as NULL.
IsDecimal(x) == x = Undefined \/ IsNumber(x)
Decimal2(x) == IF x = Undefined THEN Undefined ELSE ToFixed2(x)

\* insert of the buyer's row (with or without sellerCard); a rejected insert
\* throws into the catch of transferCardOwnership.
T_InsertCard(i) ==
  /\ At(i, "t_insert")
  /\ LET r == reqs[i]
     IN IF IsDecimal(r.amount)
        THEN /\ collections' = collections \cup
                  {[id |-> nextCardId, userId |-> r.buyerId,
                    name |-> ListingName(r.listingId),
                    purchasePrice |-> Decimal2(r.amount)]}
             /\ nextCardId' = nextCardId + 1
             /\ Goto(i, IF r.card # 0 THEN "t_delete" ELSE "t_deact")
             /\ Record(i, "card")
        ELSE /\ TransferExit(i)
             /\ UNCHANGED <<collections, nextCardId, ledger>>
  /\ UNCHANGED <<store, listingActive, totalSales, orders, faults, hist, sigVars, rateVars>>

\* T_DeleteCard going on to the order, past the listing's deactivation.
T_DeleteCardThenOrder(i) ==
  /\ At(i, "t_delete")
  /\ collections' = {c \in collections : c.id # reqs[i].card}
  /\ Goto(i, "t_order")
  /\ Record(i, "del")
  /\ UNCHANGED <<store, listingActive, totalSales, nextCardId, orders, faults, hist, sigVars, rateVars>>

T_DeleteCard(i) ==
  /\ At(i, "t_delete")
  /\ collections' = {c \in collections : c.id # reqs[i].card}
  /\ Goto(i, "t_deact")
  /\ Record(i, "del")
  /\ UNCHANGED <<store, listingActive, totalSales, nextCardId, orders, faults, hist, sigVars, rateVars>>

T_DeactivateListing(i) ==
  /\ At(i, "t_deact")
  /\ listingActive' = [listingActive EXCEPT ![reqs[i].listingId] = FALSE]
  /\ Goto(i, "t_order")
  /\ Record(i, "deact")
  /\ UNCHANGED <<store, totalSales, collections, nextCardId, orders, faults, hist, sigVars, rateVars>>

\* OrderPrice taking the listing's price whatever amount was paid.
OrderPriceFromListing(amount, listingPrice) == listingPrice

OrderPrice(amount, listingPrice) ==
  LET text == IF Truthy(amount) THEN amount ELSE listingPrice
  IN IF IsNumber(text) THEN ToFixed2(text) ELSE listingPrice

T_InsertOrder(i) ==
  /\ At(i, "t_order")
  /\ LET r == reqs[i]
     IN orders' = Append(orders,
          [storeId |-> ListingStore(r.listingId), buyerId |-> r.buyerId,
           itemName |-> ListingName(r.listingId),
           price |-> OrderPrice(r.amount, ListingPrice(r.listingId)),
           quantity |-> 1, status |-> "completed"])
  /\ Goto(i, "t_sales")
  /\ Record(i, "order")
  /\ UNCHANGED <<store, listingActive, totalSales, collections, nextCardId, faults, hist, sigVars, rateVars>>

T_IncrementSales(i) ==
  /\ At(i, "t_sales")
  /\ totalSales' = [totalSales EXCEPT ![ListingStore(reqs[i].listingId)] = @ + 1]
  /\ TransferExit(i)
  /\ Record(i, "sales")
  /\ UNCHANGED <<store, listingActive, collections, nextCardId, orders, faults, hist, sigVars, rateVars>>

\* ------------------------------------------------ POST /payment/manual-transfer
ManualBody(paymentId, listingId, buyerId, sellerId, itemName, amount) ==
  [paymentId |-> paymentId, listingId |-> listingId, buyerId |-> buyerId,
   sellerId |-> sellerId, itemName |-> itemName, amount |-> amount]

ManualInputs ==
  {ManualBody("p1", "L1", "buyer1", "seller1", Undefined, Undefined),
   ManualBody("p1", "L1", "buyer1", "seller2", Undefined, "165.00"),
   ManualBody("p1", "L1", "ghost", "seller1", Undefined, Undefined),
   ManualBody("p1", "L9", "buyer1", "seller1", Undefined, Undefined),
   ManualBody(Undefined, "L1", "buyer1", "seller1", Undefined, Undefined)}

\* The synchronous segment: the required fields, then the listing select.
ManualHandle(body) ==
  /\ CanStart
  /\ IF \/ ~Truthy(body.paymentId) \/ ~Truthy(body.listingId)
        \/ ~Truthy(body.buyerId) \/ ~Truthy(body.sellerId)
     THEN Answer("manual", body.paymentId, Resp(400, "Missing required fields"))
     ELSE Start(Req("manual", "m_listing", body.paymentId, body.listingId,
                    body.buyerId, body.sellerId, body.itemName, body.amount,
                    Undefined))
  /\ Note(ManualInput(body))
  /\ UNCHANGED <<store, dbVars, faults, ledger, sigVars, rateVars>>

ManualOn(bodies) == \E body \in bodies : ManualHandle(body)

ManualStart == ManualOn(ManualInputs)

\* The listing select by parseInt(listingId), then the call of
\* transferCardOwnership up to its first await.
ManualSelectListing(i) ==
  /\ At(i, "m_listing")
  /\ LET r == reqs[i]
         id == ParseInt(r.listingId)
     IN IF id \in ListingIds
        THEN Step(i, [r EXCEPT !.pc = "t_listing",
                        !.listingId = id,
                        !.itemName = IF Truthy(r.itemName) THEN r.itemName
                                     ELSE ListingName(id),
                        !.amount = IF Truthy(r.amount) THEN r.amount
                                   ELSE ListingPrice(id)])
        ELSE Finish(i, Resp(404, "Listing not found"))
  /\ UNCHANGED <<store, dbVars, faults, ledger, hist, sigVars, rateVars>>

\* ------------------------------------------- GET /payment/status/:paymentId
\* StatusBody answering with the record as create-payment wrote it.
StatusBodyAsCreated(payment) ==
  <<"pending", payment.mPaymentId, Undefined, Undefined>>

StatusBody(payment) ==
  <<payment.status, payment.mPaymentId, payment.pfPaymentId, payment.amount>>

StatusQuery ==
  \E paymentId \in PaymentIds :
    /\ CanStart
    /\ Answer("status", paymentId,
              IF Has(store, paymentId) THEN Resp(200, StatusBody(store[paymentId]))
              ELSE Resp(404, "Payment not found"))
    /\ Note(StatusInput(paymentId))
    /\ UNCHANGED <<store, dbVars, faults, ledger, sigVars, rateVars>>

\* ------------------------------------------------------- a database call throws
\* Inside transferCardOwnership its catch logs and returns; in the return
\* handler the inner catch logs and the page is sent; in the notification
\* handler the catch acknowledges; in the manual handler the catch answers 500.
\* OnThrow with the notification handler's catch answering 500.
OnThrowItnAnswers500(kind, pc) ==
  CASE pc \in {"i_listing", "i_store", "i_buyer"} -> Resp(500, "Error")
    [] pc \in {"r_listing", "r_deact"} -> ReturnPage("success")
    [] pc = "m_listing" -> Resp(500, "Failed to transfer card")
    [] OTHER -> AfterTransfer(kind)

\* OnThrow with a throw inside transferCardOwnership reaching the catch of
\* the manual handler.
OnThrowLeavesTransfer(kind, pc) ==
  CASE pc \in {"i_listing", "i_store", "i_buyer"} -> Resp(200, "OK")
    [] pc \in {"r_listing", "r_deact"} -> ReturnPage("success")
    [] pc = "m_listing" -> Resp(500, "Failed to transfer card")
    [] kind = "manual" -> Resp(500, "Failed to transfer card")
    [] OTHER -> AfterTransfer(kind)

OnThrow(kind, pc) ==
  CASE pc \in {"i_listing", "i_store", "i_buyer"} -> Resp(200, "OK")
    [] pc \in {"r_listing", "r_deact"} -> ReturnPage("success")
    [] pc = "m_listing" -> Resp(500, "Failed to transfer card")
    [] OTHER -> AfterTransfer(kind)

DbThrow(i) ==
  /\ i \in 1..Len(reqs)
  /\ faults < MaxFaults
  /\ faults' = faults + 1
  /\ Finish(i, OnThrow(reqs[i].kind, reqs[i].pc))
  /\ UNCHANGED <<store, dbVars, ledger, hist, sigVars, rateVars>>

\* ============================================================ signature codec
\* Text is a sequence of one-character strings.  A parameter mapping is a
\* sequence of [key, value] entries with distinct keys, in insertion order;
\* a field that is absent has no entry.  A key is one token of the output.
MaxValueLen == 3      \* characters of a free parameter value

Chars == {"a", " ", "+"}
RECURSIVE TextsUpTo(_)
TextsUpTo(n) ==
  IF n = 0 THEN {<<>>}
  ELSE LET shorter == TextsUpTo(n - 1)
       IN shorter \cup {Append(t, c) : t \in {u \in shorter : Len(u) = n - 1}, c \in Chars}

\* String.prototype.trim, on the one whitespace character of Chars.
RECURSIVE TrimStart(_)
TrimStart(t) == IF t # <<>> /\ Head(t) = " " THEN TrimStart(Tail(t)) ELSE t
RECURSIVE TrimEnd(_)
TrimEnd(t) ==
  IF t # <<>> /\ t[Len(t)] = " " THEN TrimEnd(SubSeq(t, 1, Len(t) - 1)) ELSE t
Trim(t) == TrimEnd(TrimStart(t))

\* encodeURIComponent(c).replace(/%20/g, '+')
EncodeChar(c) ==
  CASE c = " " -> <<"+">>
    [] c = "+" -> <<"%", "2", "B">>
    [] OTHER -> <<c>>
RECURSIVE Encode(_)
Encode(t) == IF t = <<>> THEN <<>> ELSE EncodeChar(Head(t)) \o Encode(Tail(t))

\* Filtered dropping every value that is falsy as a number or a boolean.
RECURSIVE FilteredDropsFalsy(_)
FilteredDropsFalsy(params) ==
  IF params = <<>> THEN <<>>
  ELSE LET e == Head(params)
       IN IF /\ e.value \notin {<<>>, <<"0">>, <<"f", "a", "l", "s", "e">>}
             /\ e.key # "signature"
          THEN <<[key |-> e.key, value |-> Trim(e.value)]>> \o
               FilteredDropsFalsy(Tail(params))
          ELSE FilteredDropsFalsy(Tail(params))

\* The entries kept: value neither '' nor absent, key not 'signature'; the
\* value kept is trimmed.  Insertion order is that of Object.keys(params).
RECURSIVE Filtered(_)
Filtered(params) ==
  IF params = <<>> THEN <<>>
  ELSE LET e == Head(params)
       IN IF e.value # <<>> /\ e.key # "signature"
          THEN <<[key |-> e.key, value |-> Trim(e.value)]>> \o Filtered(Tail(params))
          ELSE Filtered(Tail(params))

\* Array.prototype.sort() on the keys: by UTF-16 code units.
KeyRank(k) ==
  CASE k = "amount" -> 1
    [] k = "merchant_id" -> 2
    [] k = "merchant_key" -> 3
    [] OTHER -> 4

\* SortedEntries without the sort: the keys in insertion order.
SortedEntriesUnsorted(entries) == entries

RECURSIVE SortedEntries(_)
SortedEntries(entries) ==
  IF entries = <<>> THEN <<>>
  ELSE LET i == CHOOSE j \in 1..Len(entries) :
                  \A k \in 1..Len(entries) : KeyRank(entries[j].key) <= KeyRank(entries[k].key)
           rest == [j \in 1..(Len(entries) - 1) |->
                      IF j < i THEN entries[j] ELSE entries[j + 1]]
       IN <<entries[i]>> \o SortedEntries(rest)

\* sortedKeys.map(key => `${key}=${encoded value}`).join('&')
RECURSIVE Joined(_)
Joined(entries) ==
  IF entries = <<>> THEN <<>>
  ELSE <<Head(entries).key, "=">> \o Encode(Head(entries).value) \o
       (IF Tail(entries) = <<>> THEN <<>> ELSE <<"&">> \o Joined(Tail(entries)))
ParamString(params) == Joined(SortedEntries(Filtered(params)))

\* The text that is digested; a passphrase is appended when it is given and
\* not blank.
SignatureString(params, passphrase) ==
  IF passphrase # <<>> /\ Trim(passphrase) # <<>>
  THEN ParamString(params) \o <<"&", "passphrase", "=">> \o Encode(Trim(passphrase))
  ELSE ParamString(params)

\* md5(str) in hex: taken as collision-free, so two digests are equal exactly
\* when the digested texts are.
Md5(str) == <<"md5">> \o str

GeneratePayFastSignature(params, passphrase) ==
  Md5(SignatureString(params, passphrase))

\* PAYFAST_CONFIG: the sandbox and the production credentials.
SandboxMerchantId == <<"1">>
SandboxMerchantKey == <<"k">>
SandboxPassphrase == <<>>
ProductionMerchantKey == <<"K">>
ProductionPassphrase == <<"s">>

SetField(data, key, value) ==
  IF \E i \in 1..Len(data) : data[i].key = key
  THEN [i \in 1..Len(data) |->
          IF data[i].key = key THEN [key |-> key, value |-> value] ELSE data[i]]
  ELSE Append(data, [key |-> key, value |-> value])

\* POST /payment/itn, the signature check: the fields other than 'signature'
\* that are not '', then merchant_key set to the key of the environment the
\* inbound merchant_id names, signed with that environment's passphrase.
RECURSIVE VerifyParams(_)
VerifyParams(data) ==
  IF data = <<>> THEN <<>>
  ELSE IF Head(data).key # "signature" /\ Head(data).value # <<>>
       THEN <<Head(data)>> \o VerifyParams(Tail(data))
       ELSE VerifyParams(Tail(data))
ItnIsSandbox(data) ==
  \E i \in 1..Len(data) :
    data[i].key = "merchant_id" /\ data[i].value = SandboxMerchantId
ItnPassphrase(data) ==
  IF ItnIsSandbox(data) THEN SandboxPassphrase ELSE ProductionPassphrase
ItnExpectedSignature(data) ==
  GeneratePayFastSignature(
    SetField(VerifyParams(data), "merchant_key",
             IF ItnIsSandbox(data) THEN SandboxMerchantKey ELSE ProductionMerchantKey),
    ItnPassphrase(data))

\* ================================================================ rate limiter
\* src/unnamed/part_004 (rateLimiter): an in-memory counter per identifier.
MaxClock == 3         \* the latest Date.now() of a call
Identifiers == {"ip1", "ip2", "ip3"}
\* rateLimit(clientIP, 60, 15 * 60 * 1000), the defaults and the callers' values.
DefaultLimit == [maxRequests |-> 60, windowMs |-> 900000]
LimitConfigs == [maxRequests : {1, 2}, windowMs : {0, 2}]
\* rateLimitStore.size > 1000 starts the clean-up; scaled to Identifiers.
CleanupSize == 2

RateStart(config) ==
  /\ rateLimitStore = <<>>
  /\ clock = 0
  /\ limit = config
  /\ rateOut = [identifier |-> Undefined, success |-> FALSE,
                remaining |-> 0, resetTime |-> 0]
  /\ granted = [id \in Identifiers |-> 0]

\* The periodic clean-up: every expired entry is deleted.
CleanUp(m, now) ==
  IF Cardinality(DOMAIN m) > CleanupSize
  THEN [k \in {x \in DOMAIN m : ~(m[x].resetTime < now)} |-> m[k]]
  ELSE m

\* rateLimit with the count tested by > in place of >=.
RateLimitOneMore(m, identifier, maxRequests, windowMs, now) ==
  LET cleaned == CleanUp(m, now)
  IN IF ~Has(m, identifier) \/ m[identifier].resetTime < now
     THEN [store |-> MapSet(cleaned, identifier,
                            [count |-> 1, resetTime |-> now + windowMs]),
           success |-> TRUE, remaining |-> maxRequests - 1,
           resetTime |-> now + windowMs]
     ELSE IF m[identifier].count > maxRequests
     THEN [store |-> cleaned, success |-> FALSE, remaining |-> 0,
           resetTime |-> m[identifier].resetTime]
     ELSE [store |-> MapSet(cleaned, identifier,
                            [m[identifier] EXCEPT !.count = @ + 1]),
           success |-> TRUE,
           remaining |-> maxRequests - (m[identifier].count + 1),
           resetTime |-> m[identifier].resetTime]

\* rateLimit: the entry is read before the clean-up; an absent or expired
\* entry opens a window, a full one refuses, any other is counted.
RateLimit(m, identifier, maxRequests, windowMs, now) ==
  LET cleaned == CleanUp(m, now)
  IN IF ~Has(m, identifier) \/ m[identifier].resetTime < now
     THEN [store |-> MapSet(cleaned, identifier,
                            [count |-> 1, resetTime |-> now + windowMs]),
           success |-> TRUE, remaining |-> maxRequests - 1,
           resetTime |-> now + windowMs]
     ELSE IF m[identifier].count >= maxRequests
     THEN [store |-> cleaned, success |-> FALSE, remaining |-> 0,
           resetTime |-> m[identifier].resetTime]
     ELSE [store |-> MapSet(cleaned, identifier,
                            [m[identifier] EXCEPT !.count = @ + 1]),
           success |-> TRUE,
           remaining |-> maxRequests - (m[identifier].count + 1),
           resetTime |-> m[identifier].resetTime]

\* One call of rateLimit at a time Date.now() not before the last one.
RateCall ==
  \E identifier \in Identifiers, now \in clock..MaxClock :
    LET out == RateLimit(rateLimitStore, identifier, limit.maxRequests,
                         limit.windowMs, now)
        sameWindow == /\ Has(rateLimitStore, identifier)
                      /\ rateLimitStore[identifier].resetTime = out.resetTime
    IN /\ clock' = now
       /\ rateLimitStore' = out.store
       /\ rateOut' = [identifier |-> identifier, success |-> out.success,
                      remaining |-> out.remaining, resetTime |-> out.resetTime]
       /\ granted' = [granted EXCEPT ![identifier] =
                        IF ~out.success THEN @
                        ELSE IF sameWindow THEN @ + 1 ELSE 1]
       /\ UNCHANGED <<limit, payVars, sigVars>>

\* -------------------------------------------------------------- specification
Slots == 1..MaxRequests

Next ==
  \/ CreatePayment
  \/ ReturnStart
  \/ ItnStart
  \/ ManualStart
  \/ StatusQuery
  \/ \E i \in Slots : ReturnSelectListing(i)
  \/ \E i \in Slots : ReturnDeactivate(i)
  \/ \E i \in Slots : ItnFindListing(i)
  \/ \E i \in Slots : ItnFindStore(i)
  \/ \E i \in Slots : ItnFindBuyer(i)
  \/ \E i \in Slots : ManualSelectListing(i)
  \/ \E i \in Slots : T_SelectListing(i)
  \/ \E i \in Slots : T_SelectBuyer(i)
  \/ \E i \in Slots : T_SelectSeller(i)
  \/ \E i \in Slots : T_SelectStore(i)
  \/ \E i \in Slots : T_ExactMatch(i)
  \/ \E i \in Slots : T_CaseInsensitiveMatch(i)
  \/ \E i \in Slots : T_ItemNameMatch(i)
  \/ \E i \in Slots : T_InsertCard(i)
  \/ \E i \in Slots : T_DeleteCard(i)
  \/ \E i \in Slots : T_DeactivateListing(i)
  \/ \E i \in Slots : T_InsertOrder(i)
  \/ \E i \in Slots : T_IncrementSales(i)
  \/ \E i \in Slots : DbThrow(i)

Init ==
  /\ PayInit
  /\ sigParams = <<>>
  /\ sigSecret = ""
  /\ sigOut = <<>>
  /\ RateStart(DefaultLimit)

Spec == Init /\ [][Next]_vars

\* The rate limiter alone, called with one of a few limits.
RateInit ==
  /\ PayInit
  /\ sigParams = <<>>
  /\ sigSecret = ""
  /\ sigOut = <<>>
  /\ \E config \in LimitConfigs : RateStart(config)
RateNext == RateCall
RateSpec == RateInit /\ [][RateNext]_vars

\* ------------------------------------------------ the race on one payment
\* The state create-payment leaves for {amount: "165.00", itemName: "Flareon
\* Ex", mPaymentId: "p1", listingId: "L1", buyerId: "buyer1", sellerId:
\* "seller1"} at time 0; the handlers that follow are counted from there.
ConfirmStore ==
  MapSet(<<>>, "p1", PaymentRecord("pending", "p1", Undefined, Undefined, 0,
                                   "L1", "buyer1", "seller1"))

ConfirmInit ==
  /\ store = ConfirmStore
  /\ listingActive = [l \in ListingIds |-> TRUE]
  /\ totalSales = [s \in StoreIds |-> 0]
  /\ collections = InitCollections
  /\ nextCardId = 3
  /\ orders = <<>>
  /\ reqs = <<>>
  /\ started = 0
  /\ lastResp = [kind |-> "create", pid |-> "p1", resp |-> Resp(200, "p1")]
  /\ faults = 0
  /\ ledger = [p \in PaymentIds |-> NoLedger]
  /\ hist = [NoHist EXCEPT !.on = TRUE]
  /\ sigParams = <<>>
  /\ sigSecret = ""
  /\ sigOut = <<>>
  /\ RateStart(DefaultLimit)

ConfirmItnData ==
  [m_payment_id : {"p1"}, payment_status : {"COMPLETE", "FAILED"},
   pf_payment_id : {"pf-77"}, amount_gross : {"165.00"},
   item_name : {"Flareon Ex"}, email_address : {"buyer1@x.io"},
   signatureMatches : BOOLEAN, hasNullField : {FALSE}]

ConfirmNext ==
  \/ ReturnStartOn({"success"})
  \/ ItnStartOn(ConfirmItnData)
  \/ \E i \in Slots : ReturnSelectListing(i)
  \/ \E i \in Slots : ItnFindListing(i)
  \/ \E i \in Slots : ItnFindStore(i)
  \/ \E i \in Slots : ItnFindBuyer(i)
  \/ \E i \in Slots : T_SelectListing(i)
  \/ \E i \in Slots : T_SelectBuyer(i)
  \/ \E i \in Slots : T_SelectSeller(i)
  \/ \E i \in Slots : T_SelectStore(i)
  \/ \E i \in Slots : T_ExactMatch(i)
  \/ \E i \in Slots : T_CaseInsensitiveMatch(i)
  \/ \E i \in Slots : T_ItemNameMatch(i)
  \/ \E i \in Slots : T_InsertCard(i)
  \/ \E i \in Slots : T_DeleteCard(i)
  \/ \E i \in Slots : T_DeactivateListing(i)
  \/ \E i \in Slots : T_InsertOrder(i)
  \/ \E i \in Slots : T_IncrementSales(i)
  \/ \E i \in Slots : DbThrow(i)

ConfirmSpec == ConfirmInit /\ [][ConfirmNext]_vars

\* ------------------------------------------ the handlers, one request at a time
\* The initiation, return and notification handlers from the empty store, on
\* chosen requests, with the input of the request that arrived last kept.
FullBody ==
  [amount |-> "165.00", itemName |-> "Flareon Ex", mPaymentId |-> "p1",
   listingId |-> "L1", buyerId |-> "buyer1", sellerId |-> "seller1"]
ContractCreateInputs ==
  {FullBody,
   [FullBody EXCEPT !.amount = Undefined],
   [FullBody EXCEPT !.itemName = Undefined],
   [FullBody EXCEPT !.mPaymentId = Undefined, !.sellerId = "seller2"],
   [FullBody EXCEPT !.buyerId = Undefined, !.sellerId = Undefined],
   [FullBody EXCEPT !.listingId = Undefined],
   [FullBody EXCEPT !.listingId = "L9"],
   [FullBody EXCEPT !.listingId = "L1abc"],
   [FullBody EXCEPT !.listingId = "abc"]}
ContractItnData ==
  [m_payment_id : {"p1"},
   payment_status : {"COMPLETE", "FAILED", "PENDING", "CANCELLED", Undefined},
   pf_payment_id : {"pf-77"}, amount_gross : {"165.00"},
   item_name : {"Flareon Ex"}, email_address : {"buyer1@x.io", "nobody@x.io"},
   signatureMatches : BOOLEAN, hasNullField : BOOLEAN]

\* The store at the start: empty, or the record create-payment keeps for a
\* body with a listingId and neither party.
ContractStores ==
  {<<>>,
   MapSet(<<>>, "p1",
          CreateRecord("p1", [FullBody EXCEPT !.buyerId = Undefined,
                                              !.sellerId = Undefined], 0))}
ContractInit ==
  /\ store \in ContractStores
  /\ listingActive = [l \in ListingIds |-> TRUE]
  /\ totalSales = [s \in StoreIds |-> 0]
  /\ collections = InitCollections
  /\ nextCardId = 3
  /\ orders = <<>>
  /\ reqs = <<>>
  /\ started = 0
  /\ lastResp = [kind |-> "none", pid |-> Undefined, resp |-> NoResp]
  /\ faults = 0
  /\ ledger = [p \in PaymentIds |-> NoLedger]
  /\ hist = [NoHist EXCEPT !.track = TRUE]
  /\ sigParams = <<>>
  /\ sigSecret = ""
  /\ sigOut = <<>>
  /\ RateStart(DefaultLimit)

ContractNext ==
  \/ CreateOn(ContractCreateInputs)
  \/ ReturnStartOn(ReturnStatusInputs)
  \/ ItnStartOn(ContractItnData)
  \/ \E i \in Slots : ReturnSelectListing(i)
  \/ \E i \in Slots : ReturnDeactivate(i)
  \/ \E i \in Slots : ItnFindListing(i)
  \/ \E i \in Slots : ItnFindStore(i)
  \/ \E i \in Slots : ItnFindBuyer(i)
  \/ \E i \in Slots : T_SelectListing(i)
  \/ \E i \in Slots : T_SelectBuyer(i)
  \/ \E i \in Slots : T_SelectSeller(i)
  \/ \E i \in Slots : T_SelectStore(i)
  \/ \E i \in Slots : T_ExactMatch(i)
  \/ \E i \in Slots : T_CaseInsensitiveMatch(i)
  \/ \E i \in Slots : T_ItemNameMatch(i)
  \/ \E i \in Slots : T_InsertCard(i)
  \/ \E i \in Slots : T_DeleteCard(i)
  \/ \E i \in Slots : T_DeactivateListing(i)
  \/ \E i \in Slots : T_InsertOrder(i)
  \/ \E i \in Slots : T_IncrementSales(i)
  \/ \E i \in Slots : DbThrow(i)

ContractSpec == ContractInit /\ [][ContractNext]_vars

\* The same with fairness: an awaited database call returns or throws, so a
\* handler in flight takes its next step.
Continue ==
  \/ \E i \in Slots : ReturnSelectListing(i)
  \/ \E i \in Slots : ReturnDeactivate(i)
  \/ \E i \in Slots : ItnFindListing(i)
  \/ \E i \in Slots : ItnFindStore(i)
  \/ \E i \in Slots : ItnFindBuyer(i)
  \/ \E i \in Slots : T_SelectListing(i)
  \/ \E i \in Slots : T_SelectBuyer(i)
  \/ \E i \in Slots : T_SelectSeller(i)
  \/ \E i \in Slots : T_SelectStore(i)
  \/ \E i \in Slots : T_ExactMatch(i)
  \/ \E i \in Slots : T_CaseInsensitiveMatch(i)
  \/ \E i \in Slots : T_ItemNameMatch(i)
  \/ \E i \in Slots : T_InsertCard(i)
  \/ \E i \in Slots : T_DeleteCard(i)
  \/ \E i \in Slots : T_DeactivateListing(i)
  \/ \E i \in Slots : T_InsertOrder(i)
  \/ \E i \in Slots : T_IncrementSales(i)
LiveSpec == ContractInit /\ [][ContractNext]_vars /\ WF_vars(Continue)

\* ------------------------------------------------- the transfer on its own
\* transferCardOwnership called by the notification handler with the IDs of
\* the stored record and by the manual replay, on several contents of the
\* collections table and with IDs that have no row.
Card(id, userId, name) ==
  [id |-> id, userId |-> userId, name |-> name, purchasePrice |-> Undefined]

\* The stored listingId, buyerId, sellerId and the seller's cards: a card
\* named exactly as the listing and one that differs in case and blanks; the
\* latter and a card named as the label "Promo"; only a card named as the
\* label; IDs with no row, and a user ("buyer1") who has no store as seller.
TransferCases ==
  {[ids |-> <<"L1", "buyer1", "seller1">>,
    cards |-> {Card(1, "seller1", "Flareon Ex"), Card(2, "seller1", " flareon ex ")}],
   [ids |-> <<"L1", "buyer1", "seller1">>,
    cards |-> {Card(1, "seller1", " flareon ex "), Card(2, "seller1", "promo ")}],
   [ids |-> <<"L1", "buyer1", "seller1">>,
    cards |-> {Card(1, "seller1", "promo ")}],
   [ids |-> <<"L9", "buyer1", "seller1">>, cards |-> InitCollections],
   [ids |-> <<"L1", "buyer1", "ghost">>, cards |-> InitCollections],
   [ids |-> <<"L1", "buyer1", "buyer1">>, cards |-> InitCollections]}

TransferItnData ==
  {[m_payment_id |-> "p1", payment_status |-> "COMPLETE",
    pf_payment_id |-> "pf-77", amount_gross |-> a, item_name |-> n,
    email_address |-> "buyer1@x.io", signatureMatches |-> TRUE,
    hasNullField |-> FALSE] :
   <<a, n>> \in {<<"165.00", "Promo">>, <<"abc", "Flareon Ex">>}}

TransferManualInputs ==
  {ManualBody("p1", "L1", "buyer1", "seller1", Undefined, Undefined),
   ManualBody("p1", "L1", "ghost", "seller1", Undefined, Undefined)}

TransferInit ==
  /\ \E c \in TransferCases :
       /\ store = MapSet(<<>>, "p1",
                         PaymentRecord("pending", "p1", Undefined, Undefined, 0,
                                       c.ids[1], c.ids[2], c.ids[3]))
       /\ collections = c.cards
  /\ listingActive = [l \in ListingIds |-> TRUE]
  /\ totalSales = [s \in StoreIds |-> 0]
  /\ nextCardId = 3
  /\ orders = <<>>
  /\ reqs = <<>>
  /\ started = 0
  /\ lastResp = [kind |-> "create", pid |-> "p1", resp |-> Resp(200, "p1")]
  /\ faults = 0
  /\ ledger = [p \in PaymentIds |-> NoLedger]
  /\ hist = [NoHist EXCEPT !.track = TRUE]
  /\ sigParams = <<>>
  /\ sigSecret = ""
  /\ sigOut = <<>>
  /\ RateStart(DefaultLimit)

TransferNext ==
  \/ ItnStartOn(TransferItnData)
  \/ ManualOn(TransferManualInputs)
  \/ \E i \in Slots : ManualSelectListing(i)
  \/ \E i \in Slots : T_SelectListing(i)
  \/ \E i \in Slots : T_SelectBuyer(i)
  \/ \E i \in Slots : T_SelectSeller(i)
  \/ \E i \in Slots : T_SelectStore(i)
  \/ \E i \in Slots : T_ExactMatch(i)
  \/ \E i \in Slots : T_CaseInsensitiveMatch(i)
  \/ \E i \in Slots : T_ItemNameMatch(i)
  \/ \E i \in Slots : T_InsertCard(i)
  \/ \E i \in Slots : T_DeleteCard(i)
  \/ \E i \in Slots : T_DeactivateListing(i)
  \/ \E i \in Slots : T_InsertOrder(i)
  \/ \E i \in Slots : T_IncrementSales(i)
  \/ \E i \in Slots : DbThrow(i)

TransferSpec == TransferInit /\ [][TransferNext]_vars

\* --------------------------------------------- signing and verifying a mapping
\* The mappings signed: a free 'amount', the merchant fields of either
\* environment, and a 'signature' field, each present or not, in the order
\* create-payment writes them.
Entry(key, values) == {<<>>} \cup {<<[key |-> key, value |-> v]>> : v \in values}
\* The values "0" and "false": falsy as a number or a boolean, not as text.
ZeroText == <<"0">>
FalseText == <<"f", "a", "l", "s", "e">>
SigMappings ==
  { id \o mk \o am \o sg :
      id \in Entry("merchant_id", {SandboxMerchantId, <<"2">>}),
      mk \in Entry("merchant_key", {SandboxMerchantKey}),
      am \in Entry("amount", TextsUpTo(MaxValueLen) \cup {ZeroText, FalseText}),
      sg \in Entry("signature", {<<"a">>}) }
SigSecrets == {SandboxPassphrase, ProductionPassphrase}

NoSig == [phase |-> "init", params |-> <<>>, canon |-> <<>>, digest |-> <<>>,
          expected |-> <<>>, field |-> 0]

SigInit ==
  /\ sigParams \in SigMappings
  /\ sigSecret \in SigSecrets
  /\ sigOut = NoSig
  /\ RateStart(DefaultLimit)
  /\ store = <<>>
  /\ listingActive = [l \in ListingIds |-> TRUE]
  /\ totalSales = [s \in StoreIds |-> 0]
  /\ collections = InitCollections
  /\ nextCardId = 3
  /\ orders = <<>>
  /\ reqs = <<>>
  /\ started = 0
  /\ lastResp = [kind |-> "none", pid |-> Undefined, resp |-> NoResp]
  /\ faults = 0
  /\ ledger = [p \in PaymentIds |-> NoLedger]
  /\ hist = NoHist

\* sign(params, secret): the digest, kept with the text it was taken of.
SigSign ==
  /\ sigOut.phase = "init"
  /\ sigOut' = [NoSig EXCEPT !.phase = "signed",
                             !.params = sigParams,
                             !.canon = SignatureString(sigParams, sigSecret),
                             !.digest = GeneratePayFastSignature(sigParams, sigSecret)]
  /\ UNCHANGED <<sigParams, sigSecret, payVars, rateVars>>

\* The same mapping with its entries inserted in another order.
SigReorder ==
  /\ sigOut.phase \in {"signed", "reordered"}
  /\ \E i \in 1..(Len(sigParams) - 1) :
       sigParams' = [sigParams EXCEPT ![i] = sigParams[i + 1], ![i + 1] = sigParams[i]]
  /\ sigOut' = [sigOut EXCEPT !.phase = "reordered"]
  /\ UNCHANGED <<sigSecret, payVars, rateVars>>

\* One character of one signed value is replaced, inserted or removed.
Edits(t) ==
  {[t EXCEPT ![i] = c] : i \in 1..Len(t), c \in Chars}
  \cup {SubSeq(t, 1, i) \o <<c>> \o SubSeq(t, i + 1, Len(t)) : i \in 0..Len(t), c \in Chars}
  \cup {SubSeq(t, 1, i - 1) \o SubSeq(t, i + 1, Len(t)) : i \in 1..Len(t)}
SigTamper ==
  /\ sigOut.phase = "signed"
  /\ \E i \in 1..Len(sigParams) :
       /\ sigParams[i].key # "signature"
       /\ \E v \in Edits(sigParams[i].value) \ {sigParams[i].value} :
            sigParams' = [sigParams EXCEPT ![i].value = v]
       /\ sigOut' = [sigOut EXCEPT !.phase = "tampered", !.field = i]
  /\ UNCHANGED <<sigSecret, payVars, rateVars>>

\* The mapping comes back as a notification carrying the digest in its
\* 'signature' field, and the handler recomputes the signature it expects.
SigNotify ==
  /\ sigOut.phase = "signed"
  /\ sigOut' = [sigOut EXCEPT
                  !.phase = "notified",
                  !.expected = ItnExpectedSignature(
                                 SetField(sigParams, "signature", sigOut.digest))]
  /\ UNCHANGED <<sigParams, sigSecret, payVars, rateVars>>

SigNext == SigSign \/ SigReorder \/ SigTamper \/ SigNotify
SigSpec == SigInit /\ [][SigNext]_vars

\* ===================================================================== claims
AllDone == reqs = <<>>
Terminal == {"complete", "failed", "cancelled"}
Ops == BagToSet(hist.ops)
CompleteItn(op) == op.kind = "itn" /\ op.status = "COMPLETE"
SuccessReturn(op) == op.kind = "return" /\ op.status = "success"
CardsOf(u) == {c \in collections : c.userId = u}

\* C1: for every sequence of COMPLETE notifications and success returns of
\* one payment, handled one after the other with no database error, the
\* transfer's committing writes (buyer asset, listing deactivation, order,
\* sales counter) are each done at most once for that payment.
C1_CommitAtMostOnce ==
  ( /\ ~hist.overlap /\ faults = 0
    /\ \A op \in Ops : CompleteItn(op) \/ SuccessReturn(op) )
  => \A p \in PaymentIds :
       /\ ledger[p].card <= 1
       /\ ledger[p].deact <= 1
       /\ ledger[p].order <= 1
       /\ ledger[p].sales <= 1

\* C2: when N >= 2 COMPLETE notifications of a payment whose record holds the
\* three relation IDs are handled concurrently, exactly one order is created,
\* the buyer gains exactly one asset and the seller loses exactly the matching
\* one.
C2_ConcurrentItnCommitOnce ==
  ( /\ AllDone /\ faults = 0 /\ hist.overlap
    /\ BagCardinality(hist.ops) >= 2
    /\ \A op \in Ops : CompleteItn(op) )
  => /\ Len(orders) = 1
     /\ Cardinality(CardsOf("buyer1")) = 1
     /\ CardsOf("seller1") = {}

\* The state after the notification, then the return, of the initiated
\* payment: one transfer at the notified amount.
C3_TransferredOnce ==
  /\ [store["p1"] EXCEPT !.timestamp = 0] =
       PaymentRecord("complete", "p1", "pf-77", "165.00", 0, "L1", "buyer1", "seller1")
  /\ collections = {c \in InitCollections : c.id # 1} \cup
       {[id |-> 3, userId |-> "buyer1", name |-> "Flareon Ex",
         purchasePrice |-> "165.00"]}
  /\ listingActive = [l \in ListingIds |-> FALSE]
  /\ orders = <<[storeId |-> "S1", buyerId |-> "buyer1", itemName |-> "Flareon Ex",
                 price |-> "165.00", quantity |-> 1, status |-> "completed"]>>
  /\ totalSales = [s \in StoreIds |-> IF s = "S1" THEN 1 ELSE 0]
  /\ ledger["p1"].order = 1

\* C3: for the pending record with its three relation IDs, return-success
\* then notification-COMPLETE and notification-COMPLETE then return-success
\* end in the same state (record, assets, listing, orders, sales counter),
\* the transfer done once.
C3_OrderIndependent ==
  ( /\ AllDone /\ faults = 0 /\ ~hist.overlap
    /\ BagCardinality(hist.ops) = 2
    /\ \E a, b \in Ops : CompleteItn(a) /\ SuccessReturn(b) )
  => C3_TransferredOnce

\* C4: a record whose status is complete, failed or cancelled keeps that
\* status in every step.
C4_TerminalStatusKept ==
  [][\A p \in DOMAIN store :
       store[p].status \in Terminal
       => (p \in DOMAIN store' /\ store'[p].status = store[p].status)]_vars

\* C5: a relation ID a record holds is kept by every write of the
\* notification and return handlers.
C5_RelationIdsKept ==
  [][\A p \in DOMAIN store :
       /\ Truthy(store[p].listingId) => store'[p].listingId = store[p].listingId
       /\ Truthy(store[p].buyerId) => store'[p].buyerId = store[p].buyerId
       /\ Truthy(store[p].sellerId) => store'[p].sellerId = store[p].sellerId]_vars

\* C6: every response of the notification endpoint is 200 'OK'.
C6_ItnAlwaysAcknowledges ==
  lastResp.kind = "itn" => lastResp.resp = Resp(200, "OK")

\* A notification answered after one of its fallback lookups threw.
C6_Witness ==
  /\ lastResp.kind = "itn" /\ faults > 0
  /\ "p1" \in DOMAIN store /\ store["p1"].status = "complete"
  /\ orders = <<>>

\* The stores some serial order of the handlers in bag b leaves, from store m
\* (timestamps set aside).
RECURSIVE SerialStores(_, _)
ApplyOp(m, op) ==
  IF op.kind = "return"
  THEN ReturnStore(m, op.status, op.pid, 0)
  ELSE ItnStore(m, [m_payment_id |-> op.pid, payment_status |-> op.status,
                    pf_payment_id |-> op.pf, amount_gross |-> op.amount,
                    hasNullField |-> op.hasNullField], 0)
SerialStores(m, b) ==
  IF b = EmptyBag THEN {m}
  ELSE UNION {SerialStores(ApplyOp(m, op), b (-) SetToBag({op})) : op \in BagToSet(b)}
StoreView(m) == [p \in DOMAIN m |-> [m[p] EXCEPT !.timestamp = 0]]

\* C7: once the handlers racing on the payment have answered, the record is
\* the one some serial order of their get-and-set steps leaves: no update is
\* lost.
C7_Linearizable ==
  AllDone => StoreView(store) \in SerialStores(ConfirmStore, hist.ops)

\* A return and a COMPLETE notification overlapped and both have answered.
C7_Witness ==
  /\ AllDone /\ hist.overlap
  /\ \E a, b \in Ops : CompleteItn(a) /\ SuccessReturn(b)
  /\ store["p1"].pfPaymentId = "pf-77"

\* C8: for every parameter mapping, signed with the shared secret of the
\* environment its merchant_id names, the signature the notification handler
\* recomputes from the returned parameters equals sign(params, secret).
C8_RoundTrip ==
  ( /\ sigOut.phase = "notified"
    /\ sigSecret = ItnPassphrase(sigParams)
    /\ \E i, j \in 1..Len(sigParams) :
         /\ sigParams[i].key = "merchant_id"
         /\ sigParams[j].key = "amount" /\ Trim(sigParams[j].value) # <<>> )
  => sigOut.expected = sigOut.digest

\* C9: changing any single character of a signed value, adding or removing
\* a leading or trailing space included, changes the canonical string.
C9_AnyEditChangesCanon ==
  sigOut.phase = "tampered" => SignatureString(sigParams, sigSecret) # sigOut.canon

\* C10: two mappings with the same fields, inserted in different orders,
\* give the same canonical string and the same digest.
C10_InsertionOrderIrrelevant ==
  sigOut.phase = "reordered"
  => /\ SignatureString(sigParams, sigSecret) = sigOut.canon
     /\ GeneratePayFastSignature(sigParams, sigSecret) = sigOut.digest
C10_Witness ==
  /\ sigOut.phase = "reordered"
  /\ sigParams # sigOut.params
  /\ Len(Filtered(sigParams)) >= 2
  /\ Filtered(sigParams) # SortedEntries(Filtered(sigParams))
  /\ Filtered(sigParams) # Filtered(sigOut.params)

\* The step is the first segment of a handler of the kind: a request
\* arrives and hist'.last is its input.
Arrives(kind) == started' = started + 1 /\ hist'.last.kind = kind
\* No asset, listing, order or sales counter changes in the step, and the
\* handler leaves no call in flight that could change one later.
NoTransferStarted == dbVars' = dbVars /\ reqs' = reqs /\ ledger' = ledger

\* C11: an initiation request without amount or without item name is
\* answered 400 and leaves the payment record store as it was.
C11_RejectedInitiationWritesNothing ==
  [][( /\ Arrives("create")
       /\ ~Truthy(hist'.last.body.amount) \/ ~Truthy(hist'.last.body.itemName) )
     => /\ store' = store
        /\ lastResp'.kind = "create" /\ lastResp'.resp.code = 400]_vars
C11_Witness ==
  /\ hist.last.kind = "create" /\ ~Truthy(hist.last.body.amount)
  /\ lastResp.kind = "create" /\ lastResp.resp.code = 400
  /\ "p1" \in DOMAIN store /\ store["p1"].status = "pending"

\* C12: after every successful initiation the store holds, for the returned
\* paymentId, a pending record with exactly the listingId, buyerId and
\* sellerId the caller supplied, and the returned paymentId is the caller's
\* when one was given.
C12_StoresSuppliedIds ==
  [][(Arrives("create") /\ lastResp'.resp.code = 200)
     => LET pid == lastResp'.pid
            body == hist'.last.body
        IN /\ pid \in DOMAIN store'
           /\ store'[pid].status = "pending"
           /\ store'[pid].listingId = body.listingId
           /\ store'[pid].buyerId = body.buyerId
           /\ store'[pid].sellerId = body.sellerId
           /\ Truthy(body.mPaymentId) => pid = body.mPaymentId]_vars

\* C12 (amended): as C12, with the listingId of the record being the integer
\* the supplied listingId parses to (NaN when it has no leading numeral).
C12_StoresParsedIds ==
  [][(Arrives("create") /\ lastResp'.resp.code = 200)
     => LET pid == lastResp'.pid
            body == hist'.last.body
        IN /\ pid \in DOMAIN store'
           /\ store'[pid].status = "pending"
           /\ store'[pid].listingId =
                (IF body.listingId = Undefined THEN Undefined
                 ELSE ParseInt(body.listingId))
           /\ store'[pid].buyerId = body.buyerId
           /\ store'[pid].sellerId = body.sellerId
           /\ Truthy(body.mPaymentId) => pid = body.mPaymentId]_vars
C12_Witness ==
  /\ hist.last.kind = "create" /\ hist.last.body.listingId = "L1abc"
  /\ lastResp.kind = "create" /\ lastResp.resp = Resp(200, "p1")
  /\ store["p1"].status = "pending"
  /\ store["p1"].listingId = "L1" /\ store["p1"].buyerId = "buyer1"
  /\ store["p1"].sellerId = "seller1"

C16_OtherStatusChangesNothing ==
  [][( /\ Arrives("itn")
       /\ hist'.last.data.payment_status \notin {"COMPLETE", "FAILED"} )
     => store' = store /\ NoTransferStarted]_vars
C16_Witness ==
  /\ hist.last.kind = "itn" /\ hist.last.data.payment_status = "CANCELLED"
  /\ lastResp.kind = "itn"
  /\ "p1" \in DOMAIN store /\ store["p1"].status = "pending"
  /\ store["p1"].listingId = "L1"

\* C17: a notification is processed the same whether or not its signature
\* matches: the step it takes is the step of the notification that differs
\* from it in the outcome of the signature comparison only.
C17_MismatchDoesNotBlock ==
  [][Arrives("itn")
     => ItnProcess([hist'.last.data EXCEPT !.signatureMatches = ~@])]_vars
C17_Witness ==
  /\ hist.last.kind = "itn" /\ hist.last.data.payment_status = "COMPLETE"
  /\ ~hist.last.data.signatureMatches /\ ~hist.last.data.hasNullField
  /\ reqs = <<>> /\ faults = 0
  /\ store["p1"].status = "complete" /\ store["p1"].pfPaymentId = "pf-77"
  /\ Len(orders) = 1 /\ ~listingActive["L1"]

\* C14: one COMPLETE notification for a pending record with all three
\* relation IDs, whose listing, buyer, seller and store exist and whose seller
\* owns a card named as the listing, handled with no database error, leaves
\* the record complete, the buyer with one new card named as the listing, the
\* seller without the matching card, the listing inactive, one order priced
\* at the notified amount with status completed, and the store's sales
\* counter one higher.
OneCompleteItn ==
  /\ AllDone /\ faults = 0
  /\ BagCardinality(hist.ops) = 1
  /\ \A op \in Ops : CompleteItn(op)
C14_CompleteTransfers ==
  OneCompleteItn
  => /\ store["p1"].status = "complete"
     /\ Cardinality(CardsOf("buyer1")) = 1
     /\ \A c \in CardsOf("buyer1") : c.name = "Flareon Ex" /\ c \notin InitCollections
     /\ CardsOf("seller1") = {}
     /\ CardsOf("seller2") = {c \in InitCollections : c.userId = "seller2"}
     /\ ~listingActive["L1"]
     /\ Len(orders) = 1
     /\ orders[1].price = "165.00" /\ orders[1].status = "completed"
     /\ orders[1].buyerId = "buyer1" /\ orders[1].storeId = "S1"
     /\ totalSales["S1"] = 1
     /\ \A s \in StoreIds \ {"S1"} : totalSales[s] = 0
C14_Witness == OneCompleteItn /\ Len(orders) = 1 /\ totalSales["S1"] = 1

\* C18: a return with status success for a pending record sets the record's
\* status to complete and keeps all its other fields (C18_KeepsAllOtherFields;
\* in the code the timestamp is set anew, and C18_PendingReturn states the
\* promotion with every field but status and timestamp kept); the transfer is entered if and only if the record has
\* listingId, buyerId and sellerId and the listing is found.
AllIds(rec) ==
  Truthy(rec.listingId) /\ Truthy(rec.buyerId) /\ Truthy(rec.sellerId)
C18_Promotes ==
  ( /\ Arrives("return") /\ hist'.last.status = "success"
    /\ hist'.last.pid \in DOMAIN store
    /\ store[hist'.last.pid].status = "pending" )
  => LET pid == hist'.last.pid
     IN /\ store' = MapSet(store, pid,
                           [store[pid] EXCEPT !.status = "complete",
                                              !.timestamp = store'[pid].timestamp])
        /\ dbVars' = dbVars
        /\ IF AllIds(store[pid])
           THEN /\ Len(reqs') = Len(reqs) + 1
                /\ reqs'[Len(reqs')].pc = "r_listing"
                /\ reqs'[Len(reqs')].listingId = store[pid].listingId
                /\ reqs'[Len(reqs')].buyerId = store[pid].buyerId
                /\ reqs'[Len(reqs')].sellerId = store[pid].sellerId
           ELSE \/ reqs' = reqs
                \/ /\ Len(reqs') = Len(reqs) + 1
                   /\ reqs'[Len(reqs')].pc = "r_deact"
C18_EntersTransfer ==
  /\ \A i \in 1..Len(reqs) :
       (reqs[i].pc = "r_listing" /\ faults' = faults /\ started' = started)
       => /\ (Len(reqs') = Len(reqs) /\ reqs'[i] # reqs[i])
             => reqs'[i].pc = "t_listing" /\ reqs[i].listingId \in ListingIds
          /\ (Len(reqs') < Len(reqs) /\ reqs' = Remove(reqs, i))
             => reqs[i].listingId \notin ListingIds
  /\ \A j \in 1..Len(reqs') :
       (reqs'[j].kind = "return" /\ reqs'[j].pc = "t_listing")
       => \E i \in 1..Len(reqs) :
            /\ reqs[i].kind = "return" /\ reqs[i].pid = reqs'[j].pid
            /\ reqs[i].pc \in {"r_listing", "t_listing"}
C18_KeepsAllOtherFields ==
  [][/\ ( /\ Arrives("return") /\ hist'.last.status = "success"
          /\ hist'.last.pid \in DOMAIN store
          /\ store[hist'.last.pid].status = "pending" )
        => store' = MapSet(store, hist'.last.pid,
                           [store[hist'.last.pid] EXCEPT !.status = "complete"])
     /\ C18_Promotes
     /\ C18_EntersTransfer]_vars
C18_PendingReturn == [][C18_Promotes /\ C18_EntersTransfer]_vars
C18_Witness ==
  /\ hist.last.kind = "return" /\ hist.last.status = "success"
  /\ reqs = <<>> /\ faults = 0
  /\ store["p1"].status = "complete" /\ store["p1"].pfPaymentId = Undefined
  /\ store["p1"].listingId = "L1" /\ store["p1"].buyerId = "buyer1"
  /\ store["p1"].sellerId = "seller1"
  /\ Len(orders) = 1 /\ ledger["p1"].order = 1

\* C19: a return with status success for a record that is already complete
\* changes nothing: the record is as it was and no transfer, listing update,
\* order or counter change comes of it, however often it is repeated.
C19_CompleteReturnIsNoOp ==
  [][( /\ Arrives("return") /\ hist'.last.status = "success"
       /\ hist'.last.pid \in DOMAIN store
       /\ store[hist'.last.pid].status = "complete" )
     => store' = store /\ NoTransferStarted]_vars
C19_Witness ==
  /\ hist.last.kind = "return" /\ hist.last.status = "success"
  /\ lastResp.kind = "return" /\ reqs = <<>>
  /\ store["p1"].status = "complete" /\ store["p1"].pfPaymentId = "pf-77"

\* C20: a return with status success for a paymentId that has no record
\* creates a record with status complete and no relation IDs, gateway id or
\* amount, and starts no transfer.
C20_UnknownReturnCreatesBare ==
  [][( /\ Arrives("return") /\ hist'.last.status = "success"
       /\ hist'.last.pid \notin DOMAIN store )
     => LET pid == hist'.last.pid
        IN /\ DOMAIN store' = DOMAIN store \cup {pid}
           /\ \A p \in DOMAIN store : store'[p] = store[p]
           /\ store'[pid].status = "complete"
           /\ store'[pid].listingId = Undefined
           /\ store'[pid].buyerId = Undefined
           /\ store'[pid].sellerId = Undefined
           /\ store'[pid].pfPaymentId = Undefined
           /\ store'[pid].amount = Undefined
           /\ NoTransferStarted]_vars
C20_Witness ==
  /\ hist.last.kind = "return" /\ hist.last.status = "success"
  /\ started = 1 /\ lastResp.kind = "return"
  /\ store["p1"].status = "complete" /\ store["p1"].listingId = Undefined
  /\ store["p1"].pfPaymentId = Undefined

\* C21: when the transfer is invoked a second time with the same arguments
\* (the same COMPLETE notification delivered again after the first has been
\* handled to its end, no database error), there is no second order, no
\* second buyer asset and no further increment of the sales counter.
TwiceTheSameItn ==
  /\ AllDone /\ faults = 0 /\ ~hist.overlap
  /\ \E op \in Ops : CompleteItn(op) /\ hist.ops = SetToBag({op}) (+) SetToBag({op})
C21_SecondTransferAddsNothing ==
  TwiceTheSameItn
  => /\ Len(orders) = 1
     /\ Cardinality(CardsOf("buyer1")) = 1
     /\ totalSales["S1"] = 1

\* The positions of a call of transferCardOwnership: its four lookups, the
\* three matching queries, the five writes.
LookupPcs == {"t_listing", "t_buyer", "t_seller", "t_store"}
MatchPcs == {"t_exact", "t_ci", "t_item"}
WritePcs == {"t_insert", "t_delete", "t_deact", "t_order", "t_sales"}
TransferPcs == LookupPcs \cup MatchPcs \cup WritePcs
HasStore(u) == \E s \in StoreIds : StoreOwner(s) = u
\* The step is one of the request in flight at i: it moves on or it ends.
Moves(i) ==
  \/ Len(reqs') = Len(reqs) /\ reqs'[i] # reqs[i]
  \/ Len(reqs') < Len(reqs) /\ reqs' = Remove(reqs, i)
Ends(i) == Len(reqs') < Len(reqs) /\ reqs' = Remove(reqs, i)

\* C22: a call of the transfer whose listing, buyer, seller or seller's store
\* does not exist is never past its lookups, ends at the lookup that finds
\* nothing, and none of its steps writes: collections, listing, orders and
\* sales counters stay as they were.
LookupMiss(r) ==
  \/ r.listingId \notin ListingIds
  \/ r.buyerId \notin UserIds
  \/ r.sellerId \notin UserIds
  \/ ~HasStore(r.sellerId)
MissesHere(r) ==
  \/ r.pc = "t_listing" /\ r.listingId \notin ListingIds
  \/ r.pc = "t_buyer" /\ r.buyerId \notin UserIds
  \/ r.pc = "t_seller" /\ r.sellerId \notin UserIds
  \/ r.pc = "t_store" /\ ~HasStore(r.sellerId)
C22_LookupMissWritesNothing ==
  [][\A i \in 1..Len(reqs) :
       (reqs[i].pc \in TransferPcs /\ LookupMiss(reqs[i]))
       => /\ reqs[i].pc \in LookupPcs
          /\ Moves(i) => dbVars' = dbVars
          /\ (Moves(i) /\ MissesHere(reqs[i])) => Ends(i)]_vars
C22_Witness ==
  /\ reqs = <<>> /\ faults = 0 /\ started = 1
  /\ lastResp.kind = "itn"
  /\ store["p1"].status = "complete" /\ store["p1"].sellerId = "buyer1"
  /\ ~HasStore(store["p1"].sellerId)
  /\ orders = <<>> /\ nextCardId = 3 /\ listingActive["L1"]
  /\ totalSales = [s \in StoreIds |-> 0]

\* C23: a transfer whose amount is no number (the one notification with
\* amount_gross "abc", for IDs that all exist, no database error) still
\* creates the buyer's asset, deactivates the listing, creates the order and
\* increments the sales counter, and the order's price is the listing's
\* price.
OneUnparsableAmount ==
  /\ AllDone /\ faults = 0 /\ started = 1
  /\ hist.last.kind = "itn" /\ ~IsNumber(hist.last.data.amount_gross)
  /\ ~LookupMiss(store["p1"])
C23_UnparsableAmountFallsBack ==
  OneUnparsableAmount
  => /\ Cardinality(CardsOf("buyer1")) = 1
     /\ ~listingActive["L1"]
     /\ Len(orders) = 1
     /\ orders[1].price = ListingPrice("L1")
     /\ totalSales["S1"] = 1

\* C24: the status query answers 404 for a paymentId that has no record and
\* otherwise answers with the record's current status, gateway payment id
\* and amount; it changes neither the store nor the database.
StatusAnswered ==
  started' = started + 1 /\ reqs' = reqs /\ lastResp'.kind = "status"
C24_StatusQueryReadsOnly ==
  [][StatusAnswered
     => /\ store' = store /\ dbVars' = dbVars
        /\ IF lastResp'.pid \in DOMAIN store
           THEN /\ lastResp'.resp.code = 200
                /\ lastResp'.resp.body[1] = store[lastResp'.pid].status
                /\ lastResp'.resp.body[3] = store[lastResp'.pid].pfPaymentId
                /\ lastResp'.resp.body[4] = store[lastResp'.pid].amount
           ELSE lastResp'.resp.code = 404]_vars
C24_Witness ==
  /\ lastResp.kind = "status" /\ lastResp.resp.code = 200
  /\ lastResp.resp.body[1] = "complete" /\ lastResp.resp.body[3] = "pf-77"
  /\ lastResp.resp.body[4] = "165.00"
  /\ store["p1"].status = "complete"

\* C25: payment records are never deleted: a paymentId that has a record in
\* the store has one in every later state.
C25_RecordsNeverDeleted ==
  [][\A p \in DOMAIN store : p \in DOMAIN store']_vars
C25_Witness ==
  /\ "p1" \in DOMAIN store /\ store["p1"].status = "failed"
  /\ lastResp.kind = "status" /\ lastResp.resp.code = 200
  /\ lastResp.resp.body[1] = "failed"

\* C26: the answer of the manual replay reflects the outcome of the
\* transfer: when its call of the transfer ends, it reports success exactly
\* when the transfer has done its last step, and failure when the transfer
\* ended at a lookup that found nothing or at a step that threw.
C26_ManualReflectsOutcome ==
  [][\A i \in 1..Len(reqs) :
       (reqs[i].kind = "manual" /\ reqs[i].pc \in TransferPcs /\ Ends(i))
       => (lastResp'.resp.code = 200
             <=> (reqs[i].pc = "t_sales" /\ faults' = faults))]_vars

\* C27: the transfer writes in the order buyer asset, deletion of the
\* seller's asset, listing deactivation, order, sales counter, each step
\* writing its own table only; when a write fails the call ends there, the
\* later writes are not done and the earlier ones stay (nothing is undone).
WriteStep(i) ==
  LET r == reqs[i]
      s == reqs'[i]
  IN CASE r.pc = "t_insert" ->
            /\ ~Ends(i) /\ s.pc = (IF r.card # 0 THEN "t_delete" ELSE "t_deact")
            /\ \E c \in collections' \ collections :
                 /\ c.userId = r.buyerId
                 /\ collections' = collections \cup {c}
            /\ listingActive' = listingActive /\ orders' = orders
            /\ totalSales' = totalSales
       [] r.pc = "t_delete" ->
            /\ ~Ends(i) /\ s.pc = "t_deact"
            /\ collections' = {c \in collections : c.id # r.card}
            /\ listingActive' = listingActive /\ orders' = orders
            /\ totalSales' = totalSales
       [] r.pc = "t_deact" ->
            /\ ~Ends(i) /\ s.pc = "t_order"
            /\ ~listingActive'[r.listingId]
            /\ collections' = collections /\ orders' = orders
            /\ totalSales' = totalSales
       [] r.pc = "t_order" ->
            /\ ~Ends(i) /\ s.pc = "t_sales"
            /\ Len(orders') = Len(orders) + 1
            /\ SubSeq(orders', 1, Len(orders)) = orders
            /\ collections' = collections /\ listingActive' = listingActive
            /\ totalSales' = totalSales
       [] OTHER ->
            /\ Ends(i)
            /\ totalSales' =
                 [totalSales EXCEPT ![ListingStore(r.listingId)] = @ + 1]
            /\ collections' = collections /\ listingActive' = listingActive
            /\ orders' = orders
WriteFails(i) ==
  faults' # faults \/ (reqs[i].pc = "t_insert" /\ ~IsDecimal(reqs[i].amount))
C27_WritesInOrderNoRollback ==
  [][\A i \in 1..Len(reqs) :
       (reqs[i].pc \in WritePcs /\ Moves(i))
       => IF WriteFails(i) THEN Ends(i) /\ dbVars' = dbVars ELSE WriteStep(i)]_vars
C27_Witness ==
  /\ reqs = <<>> /\ faults = 1 /\ started = 1
  /\ Cardinality(CardsOf("buyer1")) = 1
  /\ ~listingActive["L1"]
  /\ orders = <<>>
  /\ totalSales = [s \in StoreIds |-> 0]

\* C28: the seller's asset to move is chosen by the first of three rules that
\* finds one: a name equal to the listing's item name; a name equal to it
\* when both are trimmed and lower-cased; a name equal to the caller's item
\* label when both are trimmed and lower-cased.  A later rule is used only
\* when the earlier ones found nothing, and no asset is chosen when none
\* finds one.
ExactCards(r) ==
  {c \in collections : c.userId = r.sellerId /\ c.name = ListingName(r.listingId)}
TrimmedCards(r, text) ==
  {c \in collections : c.userId = r.sellerId /\ LowerTrim(c.name) = LowerTrim(text)}
Ids(cards) == {c.id : c \in cards}
MatchStep(i) ==
  LET r == reqs[i]
      s == reqs'[i]
      exact == ExactCards(r)
      trimmed == TrimmedCards(r, ListingName(r.listingId))
      label == TrimmedCards(r, r.itemName)
  IN /\ ~Ends(i)
     /\ IF s.pc = "t_insert"
        THEN CASE exact # {} -> r.pc = "t_exact" /\ s.card \in Ids(exact)
               [] trimmed # {} -> r.pc = "t_ci" /\ s.card \in Ids(trimmed)
               [] label # {} -> r.pc = "t_item" /\ s.card \in Ids(label)
               [] OTHER -> r.pc = "t_item" /\ s.card = 0
        ELSE \/ r.pc = "t_exact" /\ exact = {} /\ s.pc = "t_ci"
             \/ r.pc = "t_ci" /\ trimmed = {} /\ s.pc = "t_item"
C28_FirstMatchingRuleWins ==
  [][\A i \in 1..Len(reqs) :
       (reqs[i].pc \in MatchPcs /\ Moves(i) /\ faults' = faults)
       => MatchStep(i)]_vars
C28_Witness ==
  \E i \in 1..Len(reqs) :
    /\ reqs[i].pc = "t_insert" /\ reqs[i].itemName = "Promo"
    /\ ExactCards(reqs[i]) = {}
    /\ TrimmedCards(reqs[i], ListingName(reqs[i].listingId)) = {}
    /\ \E c \in collections : c.id = reqs[i].card /\ c.name = "promo "

\* C29: when no rule finds an asset of the seller the transfer goes on: the
\* buyer gets one new asset named and priced from the listing and the
\* amount, no asset of the seller is deleted, and the listing deactivation,
\* the order and the counter increment follow.
NoMatchStep(i) ==
  LET r == reqs[i]
      s == reqs'[i]
  IN CASE r.pc = "t_item" ->
            /\ ~Ends(i) /\ s.pc = "t_insert" /\ s.card = 0
            /\ dbVars' = dbVars
       [] r.pc = "t_insert" ->
            /\ ~Ends(i) /\ s.pc = "t_deact"
            /\ collections' = collections \cup
                 {[id |-> nextCardId, userId |-> r.buyerId,
                   name |-> ListingName(r.listingId),
                   purchasePrice |-> Decimal2(r.amount)]}
            /\ Cardinality(collections') = Cardinality(collections) + 1
       [] r.pc = "t_deact" ->
            /\ ~Ends(i) /\ s.pc = "t_order"
            /\ ~listingActive'[r.listingId] /\ collections' = collections
       [] r.pc = "t_order" ->
            /\ ~Ends(i) /\ s.pc = "t_sales"
            /\ Len(orders') = Len(orders) + 1
            /\ orders'[Len(orders')].itemName = ListingName(r.listingId)
            /\ orders'[Len(orders')].buyerId = r.buyerId
            /\ collections' = collections
       [] r.pc = "t_sales" ->
            /\ Ends(i)
            /\ totalSales'[ListingStore(r.listingId)] =
                 totalSales[ListingStore(r.listingId)] + 1
            /\ collections' = collections
       [] OTHER -> FALSE
NoMatch(r) ==
  \/ r.pc = "t_item" /\ TrimmedCards(r, r.itemName) = {}
  \/ r.pc \in WritePcs /\ r.card = 0
C29_NoMatchGoesOn ==
  [][\A i \in 1..Len(reqs) :
       (NoMatch(reqs[i]) /\ Moves(i) /\ ~WriteFails(i))
       => NoMatchStep(i)]_vars
C29_Witness ==
  /\ reqs = <<>> /\ faults = 0 /\ started = 1
  /\ hist.last.kind = "manual" /\ hist.last.body.sellerId = "seller1"
  /\ CardsOf("seller1") = {Card(1, "seller1", "promo ")}
  /\ CardsOf("buyer1") =
       {[id |-> 3, userId |-> "buyer1", name |-> "Flareon Ex",
         purchasePrice |-> "150.00"]}
  /\ ~listingActive["L1"]
  /\ Len(orders) = 1 /\ orders[1].price = "150.00"
  /\ totalSales["S1"] = 1

\* C30: a COMPLETE notification whose record lacks one of the three relation
\* IDs, or has no record, resolves all three by fallback: an active listing
\* named item_name, the owner of that listing's store as the seller, the user
\* whose email is email_address as the buyer.  The transfer is called with
\* these three when all are found, and not at all otherwise.
FallbackPcs == {"i_listing", "i_store", "i_buyer"}
C30_FallbackStarts ==
  ( /\ Arrives("itn")
    /\ ~hist'.last.data.hasNullField
    /\ hist'.last.data.payment_status = "COMPLETE"
    /\ \/ hist'.last.data.m_payment_id \notin DOMAIN store
       \/ ~AllIds(store[hist'.last.data.m_payment_id]) )
  => LET data == hist'.last.data
         n == reqs'[Len(reqs')]
     IN /\ Len(reqs') = Len(reqs) + 1
        /\ n.pc = "i_listing"
        /\ n.itemName = data.item_name /\ n.email = data.email_address
        /\ dbVars' = dbVars
FallbackStep(i) ==
  LET r == reqs[i]
      s == reqs'[i]
      listings == {l \in ListingIds :
                     ListingName(l) = r.itemName /\ listingActive[l]}
      buyers == {u \in UserIds : UserEmail(u) = r.email}
  IN /\ dbVars' = dbVars
     /\ CASE r.pc = "i_listing" ->
               IF listings = {} THEN Ends(i)
               ELSE ~Ends(i) /\ s.pc = "i_store" /\ s.listingId \in listings
          [] r.pc = "i_store" ->
               /\ ~Ends(i) /\ s.pc = "i_buyer"
               /\ s.listingId = r.listingId
               /\ s.sellerId = StoreOwner(ListingStore(r.listingId))
          [] OTHER ->
               IF buyers = {} THEN Ends(i)
               ELSE /\ ~Ends(i) /\ s.pc = "t_listing"
                    /\ s.listingId = r.listingId /\ s.sellerId = r.sellerId
                    /\ s.buyerId \in buyers
                    /\ s.itemName = r.itemName /\ s.amount = r.amount
C30_FallbackResolves ==
  [][/\ C30_FallbackStarts
     /\ \A i \in 1..Len(reqs) :
          (reqs[i].pc \in FallbackPcs /\ Moves(i) /\ faults' = faults)
          => FallbackStep(i)]_vars
C30_Witness ==
  /\ reqs = <<>> /\ faults = 0 /\ started = 1
  /\ hist.last.kind = "itn" /\ "p1" \in DOMAIN store
  /\ store["p1"].status = "complete" /\ store["p1"].listingId = Undefined
  /\ Len(orders) = 1 /\ orders[1].buyerId = "buyer1" /\ orders[1].storeId = "S1"
  /\ CardsOf("seller1") = {} /\ Cardinality(CardsOf("buyer1")) = 1
  /\ ~listingActive["L1"] /\ totalSales["S1"] = 1

\* C31: the outcome of a notification whose signature did not match is
\* marked as unverified: the store it leaves differs from the store the same
\* notification leaves when its signature matches.
C31_UnverifiedIsMarked ==
  [][( /\ Arrives("itn")
       /\ ~hist'.last.data.hasNullField
       /\ hist'.last.data.payment_status = "COMPLETE" )
     => store' # ItnStore(store, [hist'.last.data EXCEPT !.signatureMatches = ~@],
                          Now)]_vars

\* C32: no failure inside the transfer reaches its caller: whether the
\* transfer ends at a lookup that finds nothing, at a write that throws or
\* after its last step, the handler that called it goes on and gives the
\* answer it gives after a transfer (the notification its acknowledgement,
\* the return its success page, the manual replay its success message).
C32_TransferNeverThrows ==
  [][\A i \in 1..Len(reqs) :
       (reqs[i].pc \in TransferPcs /\ Ends(i))
       => /\ lastResp'.kind = reqs[i].kind
          /\ lastResp'.resp =
               ( CASE reqs[i].kind = "itn" -> Resp(200, "OK")
                   [] reqs[i].kind = "return" -> Resp(200, "Payment Successful")
                   [] OTHER -> Resp(200, "Card transfer completed successfully") )]_vars
C32_Witness ==
  /\ reqs = <<>> /\ faults = 1 /\ started = 1
  /\ lastResp.kind = "manual" /\ lastResp.resp.code = 200
  /\ nextCardId = 4 /\ orders = <<>>

\* C33: the canonical string has a `key=value` part for exactly the fields
\* that are present, are not the signature field and have a value that is
\* not empty; a field whose value is "0" or "false" is among them.
SigKeys == {"merchant_id", "merchant_key", "amount", "signature"}
\* The canonical text has the part `key=` followed by the encoded value.
InCanon(canon, key, value) ==
  \E i \in 1..Len(canon) :
    /\ canon[i] = key
    /\ i + 1 + Len(Encode(Trim(value))) <= Len(canon)
    /\ canon[i + 1] = "="
    /\ SubSeq(canon, i + 2, i + 1 + Len(Encode(Trim(value)))) = Encode(Trim(value))
HasKey(canon, key) == \E i \in 1..Len(canon) : canon[i] = key
C33_FilterKeepsNonEmpty ==
  sigOut.phase = "signed"
  => /\ \A i \in 1..Len(sigParams) :
          IF sigParams[i].key # "signature" /\ sigParams[i].value # <<>>
          THEN InCanon(sigOut.canon, sigParams[i].key, sigParams[i].value)
          ELSE ~HasKey(sigOut.canon, sigParams[i].key)
     /\ \A k \in SigKeys :
          (\A i \in 1..Len(sigParams) : sigParams[i].key # k)
          => ~HasKey(sigOut.canon, k)
C33_Witness ==
  /\ sigOut.phase = "signed"
  /\ \E i \in 1..Len(sigParams) :
       /\ sigParams[i].key = "amount" /\ sigParams[i].value = ZeroText
       /\ InCanon(sigOut.canon, "amount", ZeroText)
  /\ \E i \in 1..Len(sigParams) : sigParams[i].key = "signature"

\* C34: every notification gets a response, and one only: while a
\* notification is in flight it is answered later on whatever path it takes
\* (given that each database call returns or throws), an answer to a
\* notification is sent either by the handler's first segment or by the step
\* that ends one notification in flight, and every notification that ends
\* is answered by that step.
ItnInFlight == \E i \in 1..Len(reqs) : reqs[i].kind = "itn"
ItnAnswerStep ==
  /\ (lastResp' # lastResp /\ lastResp'.kind = "itn")
     => \/ started' = started + 1 /\ reqs' = reqs
        \/ \E i \in 1..Len(reqs) : reqs[i].kind = "itn" /\ Ends(i)
  /\ \A i \in 1..Len(reqs) :
       (reqs[i].kind = "itn" /\ Ends(i))
       => lastResp'.kind = "itn" /\ lastResp'.pid = reqs[i].pid
  /\ (Arrives("itn") /\ reqs' = reqs)
     => lastResp'.kind = "itn" /\ lastResp'.pid = hist'.last.data.m_payment_id
C34_ItnAlwaysAnswered ==
  /\ [][ItnAnswerStep]_vars
  /\ ItnInFlight ~> ~ItnInFlight
C34_Witness ==
  /\ reqs = <<>> /\ faults = 0 /\ started = 1
  /\ hist.last.kind = "itn" /\ hist.last.data.payment_status = "COMPLETE"
  /\ hist.last.data.email_address = "nobody@x.io"
  /\ lastResp.kind = "itn" /\ lastResp.resp = Resp(200, "OK")
  /\ "p1" \in DOMAIN store /\ store["p1"].status = "complete"
  /\ orders = <<>>

\* C35: a return with status cancel leaves the payment record store as it
\* is (a pending record stays pending) and starts no transfer, and no record
\* ever has the status cancelled.
CancelReturn == Arrives("return") /\ hist'.last.status = "cancel"
C35_CancelChangesNoRecord ==
  /\ [][CancelReturn => (store' = store /\ NoTransferStarted)]_vars
  /\ [](\A p \in DOMAIN store : store[p].status # "cancelled")
C35_Witness ==
  /\ hist.last.kind = "return" /\ hist.last.status = "cancel"
  /\ hist.last.pid = "p1"
  /\ "p1" \in DOMAIN store /\ store["p1"].status = "pending"
  /\ lastResp.kind = "return" /\ lastResp.resp = ReturnPage("cancel")
  /\ reqs = <<>>

\* C36: a return with status success for a pending record that has a
\* listingId but lacks buyerId or sellerId goes on to the update of that
\* listing only: the arrival writes nothing to the database, and the one
\* step that follows ends the request, sets the listing inactive (unless
\* the update throws) and leaves every other listing, the collections, the
\* orders and the sales counters as they were.
ListingOnlyReturn ==
  /\ Arrives("return") /\ hist'.last.status = "success"
  /\ Has(store, hist'.last.pid)
  /\ store[hist'.last.pid].status = "pending"
  /\ Truthy(store[hist'.last.pid].listingId)
  /\ ~(Truthy(store[hist'.last.pid].buyerId) /\ Truthy(store[hist'.last.pid].sellerId))
C36_ListingOnlyDeactivates ==
  [][ /\ ListingOnlyReturn
         => /\ dbVars' = dbVars
            /\ Len(reqs') = Len(reqs) + 1
            /\ reqs'[Len(reqs')].pc = "r_deact"
            /\ reqs'[Len(reqs')].listingId = store[hist'.last.pid].listingId
      /\ \A i \in 1..Len(reqs) :
           (reqs[i].pc = "r_deact" /\ Moves(i))
           => /\ Ends(i)
              /\ UNCHANGED <<totalSales, collections, nextCardId, orders>>
              /\ listingActive' = [l \in ListingIds |->
                   IF l = reqs[i].listingId /\ faults' = faults
                   THEN FALSE ELSE listingActive[l]] ]_vars
C36_Witness ==
  /\ hist.last.kind = "return" /\ hist.last.status = "success"
  /\ reqs = <<>> /\ faults = 0
  /\ "p1" \in DOMAIN store /\ store["p1"].status = "complete"
  /\ store["p1"].listingId = "L1" /\ store["p1"].buyerId = Undefined
  /\ ~listingActive["L1"]
  /\ orders = <<>> /\ collections = InitCollections /\ nextCardId = 3
  /\ \A s \in StoreIds : totalSales[s] = 0
  /\ lastResp.kind = "return" /\ lastResp.resp = ReturnPage("success")

\* C37: once the return path has set the listing of a payment inactive
\* without a transfer (the record has a listingId but not both parties, and
\* no transfer has deactivated the listing), the fallback of a COMPLETE
\* notification for that payment, naming the listing's card, still finds
\* the listing and goes on towards the transfer.
SoldByReturnOnly(p) ==
  /\ Has(store, p) /\ store[p].listingId \in ListingIds
  /\ ~(Truthy(store[p].buyerId) /\ Truthy(store[p].sellerId))
  /\ ~listingActive[store[p].listingId]
  /\ \A q \in PaymentIds : ledger[q].deact = 0
C37_FallbackFindsReturnedListing ==
  [][\A i \in 1..Len(reqs) :
       ( /\ reqs[i].kind = "itn" /\ reqs[i].pc = "i_listing"
         /\ SoldByReturnOnly(reqs[i].pid)
         /\ reqs[i].itemName = ListingName(store[reqs[i].pid].listingId)
         /\ Moves(i) /\ faults' = faults )
       => /\ ~Ends(i)
          /\ reqs'[i].pc = "i_store"
          /\ reqs'[i].listingId = store[reqs[i].pid].listingId]_vars

\* C38: a transfer whose listing is inactive when it looks the listing up
\* stops there, and so the orders hold at most one order for each listing.
OrdersOf(l) ==
  {k \in 1..Len(orders) : /\ orders[k].storeId = ListingStore(l)
                          /\ orders[k].itemName = ListingName(l)}
C38_OneOrderPerListing ==
  /\ [][\A i \in 1..Len(reqs) :
          ( /\ reqs[i].pc = "t_listing" /\ Moves(i) /\ faults' = faults
            /\ reqs[i].listingId \in ListingIds
            /\ ~listingActive[reqs[i].listingId] )
          => Ends(i)]_vars
  /\ [](\A l \in ListingIds : Cardinality(OrdersOf(l)) <= 1)

\* C39: the order a transfer inserts names a store owned by the sellerId the
\* transfer was called with, and the sales counter it increments is that of
\* a store owned by that seller and no other.
C39_SellersStoreIsCredited ==
  [][\A i \in 1..Len(reqs) :
       /\ (reqs[i].pc = "t_order" /\ Moves(i) /\ faults' = faults)
          => /\ Len(orders') = Len(orders) + 1
             /\ orders'[Len(orders')].storeId \in StoreIds
             /\ StoreOwner(orders'[Len(orders')].storeId) = reqs[i].sellerId
       /\ (reqs[i].pc = "t_sales" /\ Moves(i) /\ faults' = faults)
          => \A s \in StoreIds :
               totalSales'[s] = IF StoreOwner(s) = reqs[i].sellerId
                                THEN totalSales[s] + 1 ELSE totalSales[s]]_vars

\* C40: with maxRequests >= 1, for every identifier at most maxRequests
\* calls are answered success within one window (the calls from the one
\* that creates the window up to its resetTime); a call made in the window
\* after those is answered success = false with remaining = 0 and the
\* window's resetTime, and leaves the stored entry as it is; a call made
\* after the resetTime of the stored entry is answered success and stores a
\* new window with count 1.
Caller == rateOut'.identifier
InWindow ==
  /\ Has(rateLimitStore, Caller)
  /\ ~(rateLimitStore[Caller].resetTime < clock')
RateLimitStep ==
  /\ (rateVars' # rateVars) => Caller \in Identifiers
  /\ (InWindow /\ granted[Caller] >= limit.maxRequests)
     => /\ ~rateOut'.success /\ rateOut'.remaining = 0
        /\ rateOut'.resetTime = rateLimitStore[Caller].resetTime
        /\ rateLimitStore'[Caller] = rateLimitStore[Caller]
        /\ granted' = granted
  /\ ( /\ rateVars' # rateVars /\ Has(rateLimitStore, Caller)
       /\ rateLimitStore[Caller].resetTime < clock' )
     => /\ rateOut'.success
        /\ rateOut'.remaining = limit.maxRequests - 1
        /\ rateOut'.resetTime = clock' + limit.windowMs
        /\ rateLimitStore'[Caller] =
             [count |-> 1, resetTime |-> clock' + limit.windowMs]
C40_WindowAdmitsAtMostMax ==
  /\ [][RateLimitStep]_vars
  /\ [](\A id \in Identifiers : granted[id] <= limit.maxRequests)
\* The window of ip1 is full and a further call in it has just been refused.
C40_Witness ==
  /\ limit.maxRequests = 2
  /\ rateOut.identifier = "ip1" /\ ~rateOut.success /\ rateOut.remaining = 0
  /\ granted["ip1"] = 2
  /\ Has(rateLimitStore, "ip1") /\ rateLimitStore["ip1"].count = 2
  /\ ~(rateLimitStore["ip1"].resetTime < clock)

====
